---------------------------- MODULE Spec2Model ----------------------------
(***************************************************************************)
(* State-machine model of the knomee-identity Solana program               *)
(* (programs/knomee-identity/src): governance, identity registry, claims   *)
(* engine (propose / vouch / resolve) and reward settlement.               *)
(*                                                                         *)
(* Every instruction is one atomic transaction.  A transaction that        *)
(* returns an error is rolled back by the runtime, so a failing call is a  *)
(* stuttering step; the errors a call would raise are given by the         *)
(* *_errs operators, which the actions use as their guards.                *)
(*                                                                         *)
(* Account validation (the #[derive(Accounts)] structs) is modelled as the *)
(* SET of violated checks, because the order in which the framework        *)
(* reports them is not fixed by this repository; the require! checks of a  *)
(* handler body are modelled in source order (first failure wins).         *)
(***************************************************************************)
EXTENDS Integers, FiniteSets, Sequences, TLC

(***************************************************************************)
(* Bounds of the model                                                     *)
(***************************************************************************)
MaxClock == 4          \* Clock::unix_timestamp ranges up to MaxClock
MaxWarp == 1           \* |governance.time_warp_seconds| <= MaxWarp
InitBalance == 110     \* KNOW tokens held by every address at the start
MinStake == 1          \* params.min_stake_lamports supplied at initialization
StakeModulus == 256    \* 2^8: the width of a u64 token amount, scaled down from 2^64
VotesModulus == 134217728  \* 2^27: the width of a u128 vote total, scaled down from 2^128
ExpiryDuration == 1    \* params.claim_expiry_duration supplied at initialization
Cooldown == 2          \* params.failed_claim_cooldown supplied at initialization

(***************************************************************************)
(* Program constants (constants.rs)                                        *)
(***************************************************************************)
DEFAULT_LINK_THRESHOLD == 5100
DEFAULT_PRIMARY_THRESHOLD == 6700
DEFAULT_DUPLICATE_THRESHOLD == 8000
DEFAULT_PRIMARY_STAKE_MULTIPLIER == 3
DEFAULT_DUPLICATE_STAKE_MULTIPLIER == 10
DEFAULT_LINK_SLASH_BPS == 1000
DEFAULT_PRIMARY_SLASH_BPS == 3000
DEFAULT_DUPLICATE_SLASH_BPS == 5000
DEFAULT_SYBIL_SLASH_BPS == 10000
DEFAULT_PRIMARY_VOTE_WEIGHT == 1
DEFAULT_ORACLE_VOTE_WEIGHT == 100
DEFAULT_ORACLE_DECAY_RATE_BPS == 10
DEFAULT_ADMIN_DECAY_RATE_BPS == 50
BASIS_POINTS == 10000
MAX_PLATFORM_NAME_LEN == 32
MAX_JUSTIFICATION_LEN == 500
MAX_EVIDENCE_LEN == 1000
U16_MODULUS == 65536

(***************************************************************************)
(* Inputs                                                                  *)
(***************************************************************************)
Addrs == {"A", "B", "C"}                    \* wallet addresses
Admin == "Admin"                          \* the signer that initializes governance
Signers == Addrs \cup {Admin}
DefaultPubkey == "default"                \* Pubkey::default()
StakeChoices == {0, 34, 69}               \* stake_amount arguments of votes
ProposalStakes == {0, 34}                 \* stake_amount arguments of proposals
WarpChoices == {1}                        \* seconds_forward arguments
Platforms == {"github", "x"}              \* platform labels
TextLens == {8}                           \* lengths of justification / evidence
ClaimIds == 1..MaxClock

PlatformLen(p) == IF p = "github" THEN 6 ELSE MAX_PLATFORM_NAME_LEN + 1

\* GovernanceParams::default() with the token and time amounts of the model
DefaultParams ==
    [ link_threshold             |-> DEFAULT_LINK_THRESHOLD,
      primary_threshold          |-> DEFAULT_PRIMARY_THRESHOLD,
      duplicate_threshold        |-> DEFAULT_DUPLICATE_THRESHOLD,
      min_stake_lamports         |-> MinStake,
      primary_stake_multiplier   |-> DEFAULT_PRIMARY_STAKE_MULTIPLIER,
      duplicate_stake_multiplier |-> DEFAULT_DUPLICATE_STAKE_MULTIPLIER,
      link_slash_bps             |-> DEFAULT_LINK_SLASH_BPS,
      primary_slash_bps          |-> DEFAULT_PRIMARY_SLASH_BPS,
      duplicate_slash_bps        |-> DEFAULT_DUPLICATE_SLASH_BPS,
      sybil_slash_bps            |-> DEFAULT_SYBIL_SLASH_BPS,
      primary_vote_weight        |-> DEFAULT_PRIMARY_VOTE_WEIGHT,
      oracle_vote_weight         |-> DEFAULT_ORACLE_VOTE_WEIGHT,
      failed_claim_cooldown      |-> Cooldown,
      duplicate_flag_cooldown    |-> Cooldown,
      claim_expiry_duration      |-> ExpiryDuration,
      oracle_decay_rate_bps      |-> DEFAULT_ORACLE_DECAY_RATE_BPS,
      admin_decay_rate_bps       |-> DEFAULT_ADMIN_DECAY_RATE_BPS ]

\* The parameter sets passed to initialize_governance / update_governance_params.
\* Thresholds are u16 values; initialize_governance accepts any of them.
ZeroThresholdParams == [DefaultParams EXCEPT !.primary_threshold = 0]
OverThresholdParams == [DefaultParams EXCEPT !.primary_threshold = 20000]
ParamChoices == {DefaultParams, ZeroThresholdParams, OverThresholdParams}

\* a parameter set with a longer claim_expiry_duration
LongExpiryParams ==
    [DefaultParams EXCEPT !.claim_expiry_duration = ExpiryDuration + 1]
ExpiryParamChoices == {DefaultParams, LongExpiryParams}

\* a parameter set with another vote weight for PrimaryID identities
HeavyVoteParams == [DefaultParams EXCEPT !.primary_vote_weight = 2]

\* parameter sets with another min_stake_lamports, an unvalidated u64: one whose
\* products with the stake multipliers stay within the u64 range, and one whose
\* products exceed it
BindingStakeParams == [DefaultParams EXCEPT !.min_stake_lamports = 12]
WrappingStakeParams == [DefaultParams EXCEPT !.min_stake_lamports = 86]
StakeParamChoices == {DefaultParams, BindingStakeParams, WrappingStakeParams}

\* parameter sets with other slash rates, u16 values in basis points: one at
\* 10000 and one above
FullSlashParams == [DefaultParams EXCEPT !.link_slash_bps = 10000]
OverSlashParams == [DefaultParams EXCEPT !.primary_slash_bps = 10001]
SlashParamChoices == {DefaultParams, FullSlashParams, OverSlashParams}

\* a parameter set with a vote weight, an unvalidated u64, so large that two
\* votes of PrimaryID identities exceed the width of a vote total
HugeVoteParams == [DefaultParams EXCEPT !.primary_vote_weight = 2000000]
VoteParamChoices == {DefaultParams, HugeVoteParams}

\* a parameter set with a vote weight under which total_votes_for * 10000
\* exceeds the width of a vote total
BigVoteParams == [DefaultParams EXCEPT !.primary_vote_weight = 964]
BpsParamChoices == {DefaultParams, BigVoteParams}

VARIABLES
    clock,        \* Clock::get().unix_timestamp
    governance,   \* the Governance account, or NoAccount
    identities,   \* owner address -> Identity account (DOMAIN = initialized)
    claims,       \* claim_id -> IdentityClaim account
    vouches,      \* <<claim_id, voucher>> -> Vouch account
    links,        \* <<primary, platform>> -> LinkedIdentity account
    balances,     \* address -> balance of the KNOW token account it passes
    escrow        \* balance of the stake escrow token account

vars == <<clock, governance, identities, claims, vouches, links, balances, escrow>>

NoAccount == [initialized |-> FALSE]

\* Nothing has been initialized yet.
Fresh ==
    /\ clock = 3
    /\ governance = NoAccount
    /\ identities = <<>>
    /\ claims = <<>>
    /\ vouches = <<>>
    /\ links = <<>>
    /\ balances = [a \in Addrs |-> InitBalance]
    /\ escrow = 0

\* The first voters.  An identity becomes PrimaryID only by an Approved
\* NewPrimary claim, and a claim collects votes only from PrimaryID / Oracle
\* identities, so the first PrimaryID exists only where governance was
\* initialized with primary_threshold = 0 and a NewPrimary claim was resolved
\* without votes.  Genesis is the state after
\*   (clock 1) initialize_governance(Admin, ZeroThresholdParams),
\*             initialize_identity(A), initialize_identity(B),
\*             initialize_identity(C),
\*             request_primary_verification(A, 8, 34), resolve_consensus(1),
\*   (clock 2) request_primary_verification(B, 8, 34), resolve_consensus(2),
\*             update_governance_params(Admin, DefaultParams),
\*   (clock 3).
GenesisIdentity(owner, verified_at) ==
    [ owner                  |-> owner,
      tier                   |-> IF verified_at > 0 THEN "PrimaryID" ELSE "GreyGhost",
      primary_address        |-> owner,
      verified_at            |-> verified_at,
      total_vouches_received |-> 0,
      total_stake_received   |-> 0,
      under_challenge        |-> FALSE,
      challenge_claim_id     |-> 0,
      oracle_decay_start     |-> 0,
      linked_count           |-> 0,
      last_failed_claim_at   |-> 0 ]

GenesisClaim(claim_id, subject) ==
    [ claim_id            |-> claim_id,
      claim_type          |-> "NewPrimary",
      status              |-> "Approved",
      subject             |-> subject,
      related_address     |-> DefaultPubkey,
      platform            |-> "",
      justification_len   |-> 8,
      created_at          |-> claim_id,
      expires_at          |-> claim_id + ExpiryDuration,
      total_votes_for     |-> 0,
      total_votes_against |-> 0,
      total_stake         |-> 34,
      total_slashed       |-> 0,
      vouch_count         |-> 0,
      rewards_distributed |-> FALSE ]

Genesis ==
    /\ clock = 3
    /\ governance = [ initialized        |-> TRUE,
                      authority          |-> Admin,
                      god_mode_authority |-> Admin,
                      god_mode_active    |-> TRUE,
                      time_warp_seconds  |-> 0,
                      params             |-> DefaultParams,
                      initialized_at     |-> 1 ]
    /\ identities = ("A" :> GenesisIdentity("A", 1)) @@ ("B" :> GenesisIdentity("B", 2))
                        @@ ("C" :> GenesisIdentity("C", 0))
    /\ claims = (1 :> GenesisClaim(1, "A")) @@ (2 :> GenesisClaim(2, "B"))
    /\ vouches = <<>>
    /\ links = <<>>
    /\ balances = [a \in Addrs |-> IF a \in {"A", "B"} THEN InitBalance - 34
                                   ELSE InitBalance]
    /\ escrow = 68

Init == Fresh \/ Genesis

(***************************************************************************)
(* state/governance.rs, state/identity.rs, state/claim.rs, state/vouch.rs  *)
(***************************************************************************)
\* Governance::current_time
current_time == clock + governance.time_warp_seconds

\* IdentityTier::can_vote
can_vote(tier) == tier \in {"PrimaryID", "Oracle"}

\* Identity::is_primary
is_primary(identity) == identity.tier \in {"PrimaryID", "Oracle"}

\* voting_weight read from the default weights instead of the parameters in
\* force
voting_weight_from_defaults(identity, params) ==
    CASE identity.tier = "PrimaryID" -> DEFAULT_PRIMARY_VOTE_WEIGHT
      [] identity.tier = "Oracle"    -> DEFAULT_ORACLE_VOTE_WEIGHT
      [] OTHER                       -> 0

\* Identity::voting_weight
voting_weight(identity, params) ==
    CASE identity.tier = "GreyGhost" -> 0
      [] identity.tier = "LinkedID"  -> 0
      [] identity.tier = "PrimaryID" -> params.primary_vote_weight
      [] identity.tier = "Oracle"    -> params.oracle_vote_weight

\* ClaimType::required_threshold
required_threshold(claim_type, params) ==
    CASE claim_type = "LinkToPrimary" -> params.link_threshold
      [] claim_type = "NewPrimary"    -> params.primary_threshold
      [] claim_type = "DuplicateFlag" -> params.duplicate_threshold

\* ClaimType::cooldown_period
cooldown_period(claim_type, params) ==
    CASE claim_type = "LinkToPrimary" -> params.failed_claim_cooldown
      [] claim_type = "NewPrimary"    -> params.failed_claim_cooldown
      [] claim_type = "DuplicateFlag" -> params.duplicate_flag_cooldown

\* ClaimStatus::is_resolved
is_resolved(status) == status # "Active"

\* weighted_vote without the weight
weighted_vote_stake_only(vouch) == vouch.stake

\* Vouch::weighted_vote: checked_mul(...).unwrap_or(u128::MAX)
weighted_vote(vouch) ==
    IF vouch.weight * vouch.stake < VotesModulus
    THEN vouch.weight * vouch.stake
    ELSE VotesModulus - 1

Min(a, b) == IF a <= b THEN a ELSE b

\* x * 10000 modulo the width of a vote total, in four steps of * 10
wrapping_mul_10000(x) ==
    LET times10(y) == (y * 10) % VotesModulus
    IN  times10(times10(times10(times10(x))))

\* IdentityClaim::consensus_for_bps.  The sum of the two totals and the
\* product total_votes_for * 10000 are unchecked u128 operations: beyond the
\* width a build with overflow checks panics (-1 here), a build without
\* them wraps.
consensus_for_bps(claim, overflow_checks) ==
    LET sum == claim.total_votes_for + claim.total_votes_against
        total_votes == IF sum < VotesModulus THEN sum
                       ELSE IF overflow_checks THEN -1
                       ELSE sum % VotesModulus
        product == IF claim.total_votes_for <= (VotesModulus - 1) \div 10000
                   THEN claim.total_votes_for * 10000
                   ELSE IF overflow_checks THEN -1
                   ELSE wrapping_mul_10000(claim.total_votes_for)
    IN  IF total_votes = -1 THEN -1
        ELSE IF total_votes = 0 THEN 0
        ELSE IF product = -1 THEN -1
        ELSE Min(product \div total_votes, 10000)

\* The u16 subtraction `10000 - threshold` of consensus_reached.  For a
\* threshold above 10000 it underflows: a build with overflow checks panics
\* (-1 here), a build without them wraps modulo 2^16.
inverse_threshold(threshold, overflow_checks) ==
    IF threshold <= 10000 THEN 10000 - threshold
    ELSE IF overflow_checks THEN -1
    ELSE (10000 - threshold) % U16_MODULUS

\* consensus_reached that is undecided for a claim without votes
consensus_reached_needs_votes(claim, params, overflow_checks) ==
    IF claim.status # "Active" THEN "None"
    ELSE IF claim.total_votes_for + claim.total_votes_against = 0 THEN "None"
    ELSE
        LET threshold == required_threshold(claim.claim_type, params)
            consensus_bps == consensus_for_bps(claim, overflow_checks)
        IN  IF consensus_bps = -1 THEN "panic"
            ELSE IF consensus_bps >= threshold THEN "Some(true)"
            ELSE IF inverse_threshold(threshold, overflow_checks) = -1 THEN "panic"
            ELSE IF consensus_bps <= inverse_threshold(threshold, overflow_checks)
                 THEN "Some(false)"
            ELSE "None"

\* IdentityClaim::consensus_reached: "Some(true)", "Some(false)", "None",
\* or "panic" when the arithmetic overflows in a checked build
consensus_reached(claim, params, overflow_checks) ==
    IF claim.status # "Active" THEN "None"
    ELSE
        LET threshold == required_threshold(claim.claim_type, params)
            consensus_bps == consensus_for_bps(claim, overflow_checks)
        IN  IF consensus_bps = -1 THEN "panic"
            ELSE IF consensus_bps >= threshold THEN "Some(true)"
            ELSE IF inverse_threshold(threshold, overflow_checks) = -1 THEN "panic"
            ELSE IF consensus_bps <= inverse_threshold(threshold, overflow_checks)
                 THEN "Some(false)"
            ELSE "None"

\* instructions/consensus.rs: next_claim_id
next_claim_id == clock

\* a transfer that succeeds whatever the balance of the source account
transfer_err_without_balance_check(balance, amount) == "Ok"

\* anchor_spl::token::transfer out of a token account holding `balance`
transfer_err(balance, amount) ==
    IF amount <= balance THEN "Ok" ELSE "InsufficientFunds"

\* first failing check of a handler body: checks is a sequence of
\* <<condition that must hold, error>> pairs in source order
RECURSIVE first_err(_)
first_err(checks) ==
    IF checks = <<>> THEN "Ok"
    ELSE IF ~checks[1][1] THEN checks[1][2]
    ELSE first_err(Tail(checks))

\* a call fails with the violated account checks, or else with the first
\* failing check of the handler body
call_errs(account_errs, handler_err) ==
    IF account_errs # {} THEN account_errs
    ELSE IF handler_err # "Ok" THEN {handler_err}
    ELSE {}

governance_errs ==
    IF governance.initialized THEN {} ELSE {"AccountNotInitialized"}

(***************************************************************************)
(* instructions/governance.rs                                              *)
(***************************************************************************)
initialize_governance_errs(authority, params) ==
    IF governance.initialized THEN {"AccountAlreadyInUse"} ELSE {}

initialize_governance(authority, params) ==
    /\ initialize_governance_errs(authority, params) = {}
    /\ governance' = [ initialized        |-> TRUE,
                       authority          |-> authority,
                       god_mode_authority |-> authority,
                       god_mode_active    |-> TRUE,
                       time_warp_seconds  |-> 0,
                       params             |-> params,
                       initialized_at     |-> clock ]
    /\ UNCHANGED <<clock, identities, claims, vouches, links, balances, escrow>>

threshold_valid(t) == t >= 5100 /\ t <= 10000

update_governance_params_errs(authority, params) ==
    call_errs(
        IF ~governance.initialized THEN {"AccountNotInitialized"}
        ELSE IF governance.authority # authority THEN {"UnauthorizedGovernance"}
        ELSE {},
        first_err(<< <<threshold_valid(params.link_threshold), "InvalidThreshold">>,
                     <<threshold_valid(params.primary_threshold), "InvalidThreshold">>,
                     <<threshold_valid(params.duplicate_threshold), "InvalidThreshold">> >>))

update_governance_params(authority, params) ==
    /\ update_governance_params_errs(authority, params) = {}
    /\ governance' = [governance EXCEPT !.params = params]
    /\ UNCHANGED <<clock, identities, claims, vouches, links, balances, escrow>>

time_warp_errs(god_mode_authority, seconds_forward) ==
    call_errs(
        IF ~governance.initialized THEN {"AccountNotInitialized"}
        ELSE IF governance.god_mode_authority # god_mode_authority
             THEN {"UnauthorizedGodMode"}
        ELSE {},
        IF governance.god_mode_active THEN "Ok" ELSE "GodModeNotActive")

time_warp(god_mode_authority, seconds_forward) ==
    /\ time_warp_errs(god_mode_authority, seconds_forward) = {}
    /\ governance.time_warp_seconds + seconds_forward \in -MaxWarp..MaxWarp
    /\ governance' = [governance EXCEPT
                        !.time_warp_seconds = @ + seconds_forward]
    /\ UNCHANGED <<clock, identities, claims, vouches, links, balances, escrow>>

renounce_god_mode_errs(god_mode_authority) ==
    call_errs(
        IF ~governance.initialized THEN {"AccountNotInitialized"}
        ELSE IF governance.god_mode_authority # god_mode_authority
             THEN {"UnauthorizedGodMode"}
        ELSE {},
        IF governance.god_mode_active THEN "Ok" ELSE "GodModeAlreadyRenounced")

renounce_god_mode(god_mode_authority) ==
    /\ renounce_god_mode_errs(god_mode_authority) = {}
    /\ governance' = [governance EXCEPT !.god_mode_active = FALSE]
    /\ UNCHANGED <<clock, identities, claims, vouches, links, balances, escrow>>

(***************************************************************************)
(* instructions/identity.rs                                                *)
(***************************************************************************)
initialize_identity_errs(owner) ==
    IF owner \in DOMAIN identities THEN {"AccountAlreadyInUse"} ELSE {}

initialize_identity(owner) ==
    /\ initialize_identity_errs(owner) = {}
    /\ identities' = identities @@ (owner :>
            [ owner                  |-> owner,
              tier                   |-> "GreyGhost",
              primary_address        |-> owner,
              verified_at            |-> 0,
              total_vouches_received |-> 0,
              total_stake_received   |-> 0,
              under_challenge        |-> FALSE,
              challenge_claim_id     |-> 0,
              oracle_decay_start     |-> 0,
              linked_count           |-> 0,
              last_failed_claim_at   |-> 0 ])
    /\ UNCHANGED <<clock, governance, claims, vouches, links, balances, escrow>>

\* upgrade_to_oracle_errs with is_primary() in place of the match on
\* IdentityTier::PrimaryID
upgrade_to_oracle_errs_any_primary(owner, authority) ==
    call_errs(
        governance_errs
        \cup (IF owner \in DOMAIN identities THEN {} ELSE {"AccountNotInitialized"})
        \cup (IF governance.initialized /\ governance.authority # authority
              THEN {"UnauthorizedGovernance"} ELSE {}),
        IF is_primary(identities[owner]) THEN "Ok" ELSE "MustBePrimaryToUpgrade")

upgrade_to_oracle_errs(owner, authority) ==
    call_errs(
        governance_errs
        \cup (IF owner \in DOMAIN identities THEN {} ELSE {"AccountNotInitialized"})
        \cup (IF governance.initialized /\ governance.authority # authority
              THEN {"UnauthorizedGovernance"} ELSE {}),
        IF identities[owner].tier = "PrimaryID" THEN "Ok" ELSE "MustBePrimaryToUpgrade")

upgrade_to_oracle(owner, authority) ==
    /\ upgrade_to_oracle_errs(owner, authority) = {}
    /\ identities' = [identities EXCEPT ![owner] =
            [@ EXCEPT !.tier = "Oracle", !.oracle_decay_start = current_time]]
    /\ UNCHANGED <<clock, governance, claims, vouches, links, balances, escrow>>

link_identity_errs(primary, linked, platform) ==
    call_errs(
        governance_errs
        \cup (IF primary \in DOMAIN identities THEN {} ELSE {"AccountNotInitialized"})
        \cup (IF linked \in DOMAIN identities THEN {} ELSE {"AccountNotInitialized"})
        \cup (IF primary \in DOMAIN identities /\ ~is_primary(identities[primary])
              THEN {"NotAPrimaryId"} ELSE {})
        \cup (IF <<primary, platform>> \in DOMAIN links
              THEN {"AccountAlreadyInUse"} ELSE {})
        \cup (IF PlatformLen(platform) > MAX_PLATFORM_NAME_LEN
              THEN {"MaxSeedLengthExceeded"} ELSE {}),
        first_err(<< <<PlatformLen(platform) <= MAX_PLATFORM_NAME_LEN,
                       "PlatformNameTooLong">>,
                     <<identities[primary].linked_count + 1 < U16_MODULUS,
                       "ArithmeticOverflow">> >>))

\* primary_identity and linked_identity are two separately loaded mutable
\* accounts, and no constraint keeps them apart.  Where one identity is
\* passed as both, a framework that rejects duplicate mutable accounts fails
\* the call (no step); otherwise the two copies are written back in the
\* order of the account list, so the copy of linked_identity, which carries
\* the old linked_count, is the one that stays.
link_identity(primary, linked, platform) ==
    /\ link_identity_errs(primary, linked, platform) = {}
    /\ identities' =
            IF primary # linked
            THEN [identities EXCEPT
                    ![linked] = [@ EXCEPT !.tier = "LinkedID",
                                          !.primary_address = identities[primary].owner,
                                          !.verified_at = current_time],
                    ![primary] = [@ EXCEPT !.linked_count = @ + 1]]
            ELSE [identities EXCEPT
                    ![linked] = [@ EXCEPT !.tier = "LinkedID",
                                          !.primary_address = identities[primary].owner,
                                          !.verified_at = current_time]]
    /\ links' = links @@ (<<primary, platform>> :>
            [ primary_address |-> identities[primary].owner,
              linked_address  |-> identities[linked].owner,
              platform        |-> platform,
              linked_at       |-> current_time ])
    /\ UNCHANGED <<clock, governance, claims, vouches, balances, escrow>>

(***************************************************************************)
(* instructions/consensus.rs: proposals                                    *)
(***************************************************************************)
\* new_claim with the expiry taken from the default duration instead of the
\* parameters in force
new_claim_default_expiry(claim_type, subject, related_address, platform, justification_len, stake_amount) ==
    [ claim_id            |-> next_claim_id,
      claim_type          |-> claim_type,
      status              |-> "Active",
      subject             |-> subject,
      related_address     |-> related_address,
      platform            |-> platform,
      justification_len   |-> justification_len,
      created_at          |-> current_time,
      expires_at          |-> current_time + DefaultParams.claim_expiry_duration,
      total_votes_for     |-> 0,
      total_votes_against |-> 0,
      total_stake         |-> stake_amount,
      total_slashed       |-> 0,
      vouch_count         |-> 0,
      rewards_distributed |-> FALSE ]

\* new_claim that leaves the stake of the proposer out of total_stake
new_claim_without_proposer_stake(claim_type, subject, related_address, platform, justification_len, stake_amount) ==
    [ claim_id            |-> next_claim_id,
      claim_type          |-> claim_type,
      status              |-> "Active",
      subject             |-> subject,
      related_address     |-> related_address,
      platform            |-> platform,
      justification_len   |-> justification_len,
      created_at          |-> current_time,
      expires_at          |-> current_time + governance.params.claim_expiry_duration,
      total_votes_for     |-> 0,
      total_votes_against |-> 0,
      total_stake         |-> 0,
      total_slashed       |-> 0,
      vouch_count         |-> 0,
      rewards_distributed |-> FALSE ]

\* "Initialize claim" block shared by the three proposal handlers
new_claim(claim_type, subject, related_address, platform, justification_len, stake_amount) ==
    [ claim_id            |-> next_claim_id,
      claim_type          |-> claim_type,
      status              |-> "Active",
      subject             |-> subject,
      related_address     |-> related_address,
      platform            |-> platform,
      justification_len   |-> justification_len,
      created_at          |-> current_time,
      expires_at          |-> current_time + governance.params.claim_expiry_duration,
      total_votes_for     |-> 0,
      total_votes_against |-> 0,
      total_stake         |-> stake_amount,
      total_slashed       |-> 0,
      vouch_count         |-> 0,
      rewards_distributed |-> FALSE ]

required_stake_multiplier(claim_type, params) ==
    CASE claim_type = "LinkToPrimary" -> 1
      [] claim_type = "NewPrimary"    -> params.primary_stake_multiplier
      [] claim_type = "DuplicateFlag" -> params.duplicate_stake_multiplier

\* `let min_stake = min_stake_lamports * multiplier as u64`: an unchecked u64
\* multiplication.  A product beyond the u64 range panics in a build with
\* overflow checks (-1 here) and wraps in a build without them.
min_stake(multiplier, overflow_checks) ==
    LET product == governance.params.min_stake_lamports * multiplier
    IN  IF product < StakeModulus THEN product
        ELSE IF overflow_checks THEN -1
        ELSE product % StakeModulus

\* a claim account created with `init_if_needed` in place of `init`
claim_init_errs_init_if_needed == {}

\* the `init` of the claim account at the address derived from next_claim_id
claim_init_errs ==
    IF next_claim_id \in DOMAIN claims THEN {"AccountAlreadyInUse"} ELSE {}

identity_errs(owner) ==
    IF owner \in DOMAIN identities THEN {} ELSE {"AccountNotInitialized"}

\* the cooldown block with `>` in place of `>=`
cooldown_elapsed_strictly_after(identity, claim_type) ==
    identity.last_failed_claim_at > 0 =>
        current_time > identity.last_failed_claim_at
                          + cooldown_period(claim_type, governance.params)

\* "Check cooldown" block of the LinkToPrimary / NewPrimary handlers
cooldown_elapsed(identity, claim_type) ==
    identity.last_failed_claim_at > 0 =>
        current_time >= identity.last_failed_claim_at
                          + cooldown_period(claim_type, governance.params)

request_link_to_primary_errs(subject, primary_address, platform, justification_len, stake_amount) ==
    call_errs(
        governance_errs \cup identity_errs(subject) \cup claim_init_errs,
        first_err(<<
            <<PlatformLen(platform) <= MAX_PLATFORM_NAME_LEN, "PlatformNameTooLong">>,
            <<justification_len <= MAX_JUSTIFICATION_LEN, "JustificationTooLong">>,
            <<stake_amount >= governance.params.min_stake_lamports, "InsufficientStake">>,
            <<cooldown_elapsed(identities[subject], "LinkToPrimary"), "CooldownNotElapsed">>,
            <<~identities[subject].under_challenge, "AddressUnderChallenge">>,
            <<transfer_err(balances[subject], stake_amount) = "Ok", "InsufficientFunds">> >>))

request_link_to_primary(subject, primary_address, platform, justification_len, stake_amount) ==
    /\ request_link_to_primary_errs(subject, primary_address, platform,
                                    justification_len, stake_amount) = {}
    /\ balances' = [balances EXCEPT ![subject] = @ - stake_amount]
    /\ escrow' = escrow + stake_amount
    /\ claims' = claims @@ (next_claim_id :>
            new_claim("LinkToPrimary", subject, primary_address, platform,
                      justification_len, stake_amount))
    /\ UNCHANGED <<clock, governance, identities, vouches, links>>

request_primary_verification_errs(subject, justification_len, stake_amount, overflow_checks) ==
    call_errs(
        governance_errs \cup identity_errs(subject) \cup claim_init_errs,
        first_err(<<
            <<justification_len <= MAX_JUSTIFICATION_LEN, "JustificationTooLong">>,
            <<min_stake(governance.params.primary_stake_multiplier, overflow_checks) # -1,
              "Panic">>,
            <<stake_amount >= min_stake(governance.params.primary_stake_multiplier,
                                        overflow_checks),
              "InsufficientStake">>,
            <<cooldown_elapsed(identities[subject], "NewPrimary"), "CooldownNotElapsed">>,
            <<~identities[subject].under_challenge, "AddressUnderChallenge">>,
            <<transfer_err(balances[subject], stake_amount) = "Ok", "InsufficientFunds">> >>))

request_primary_verification(subject, justification_len, stake_amount, overflow_checks) ==
    /\ request_primary_verification_errs(subject, justification_len, stake_amount,
                                         overflow_checks) = {}
    /\ balances' = [balances EXCEPT ![subject] = @ - stake_amount]
    /\ escrow' = escrow + stake_amount
    /\ claims' = claims @@ (next_claim_id :>
            new_claim("NewPrimary", subject, DefaultPubkey, "",
                      justification_len, stake_amount))
    /\ UNCHANGED <<clock, governance, identities, vouches, links>>

\* challenge_duplicate_errs without the check that the addresses differ
challenge_duplicate_errs_same_address_allowed(challenger, addr1, addr2, evidence_len, stake_amount, overflow_checks) ==
    call_errs(
        governance_errs \cup identity_errs(addr1) \cup identity_errs(addr2)
            \cup claim_init_errs,
        first_err(<<
            <<evidence_len <= MAX_EVIDENCE_LEN, "EvidenceTooLong">>,
            <<is_primary(identities[addr1]), "NotAPrimaryId">>,
            <<is_primary(identities[addr2]), "NotAPrimaryId">>,
            <<min_stake(governance.params.duplicate_stake_multiplier, overflow_checks) # -1,
              "Panic">>,
            <<stake_amount >= min_stake(governance.params.duplicate_stake_multiplier,
                                        overflow_checks),
              "InsufficientStake">>,
            <<transfer_err(balances[challenger], stake_amount) = "Ok",
              "InsufficientFunds">> >>))

\* challenge_duplicate_errs with the under_challenge check of the two other
\* proposal handlers
challenge_duplicate_errs_with_challenge_check(challenger, addr1, addr2, evidence_len, stake_amount, overflow_checks) ==
    call_errs(
        governance_errs \cup identity_errs(addr1) \cup identity_errs(addr2)
            \cup claim_init_errs,
        first_err(<<
            <<evidence_len <= MAX_EVIDENCE_LEN, "EvidenceTooLong">>,
            <<addr1 # addr2, "CannotChallengeSameAddress">>,
            <<is_primary(identities[addr1]), "NotAPrimaryId">>,
            <<is_primary(identities[addr2]), "NotAPrimaryId">>,
            <<min_stake(governance.params.duplicate_stake_multiplier, overflow_checks) # -1,
              "Panic">>,
            <<stake_amount >= min_stake(governance.params.duplicate_stake_multiplier,
                                        overflow_checks),
              "InsufficientStake">>,
            <<~identities[addr1].under_challenge, "AddressUnderChallenge">>,
            <<~identities[addr2].under_challenge, "AddressUnderChallenge">>,
            <<transfer_err(balances[challenger], stake_amount) = "Ok",
              "InsufficientFunds">> >>))

challenge_duplicate_errs(challenger, addr1, addr2, evidence_len, stake_amount, overflow_checks) ==
    call_errs(
        governance_errs \cup identity_errs(addr1) \cup identity_errs(addr2)
            \cup claim_init_errs,
        first_err(<<
            <<evidence_len <= MAX_EVIDENCE_LEN, "EvidenceTooLong">>,
            <<addr1 # addr2, "CannotChallengeSameAddress">>,
            <<is_primary(identities[addr1]), "NotAPrimaryId">>,
            <<is_primary(identities[addr2]), "NotAPrimaryId">>,
            <<min_stake(governance.params.duplicate_stake_multiplier, overflow_checks) # -1,
              "Panic">>,
            <<stake_amount >= min_stake(governance.params.duplicate_stake_multiplier,
                                        overflow_checks),
              "InsufficientStake">>,
            <<transfer_err(balances[challenger], stake_amount) = "Ok",
              "InsufficientFunds">> >>))

challenge_duplicate(challenger, addr1, addr2, evidence_len, stake_amount, overflow_checks) ==
    /\ challenge_duplicate_errs(challenger, addr1, addr2, evidence_len, stake_amount,
                                overflow_checks) = {}
    /\ balances' = [balances EXCEPT ![challenger] = @ - stake_amount]
    /\ escrow' = escrow + stake_amount
    /\ identities' = [identities EXCEPT
            ![addr1] = [@ EXCEPT !.under_challenge = TRUE,
                                 !.challenge_claim_id = next_claim_id],
            ![addr2] = [@ EXCEPT !.under_challenge = TRUE,
                                 !.challenge_claim_id = next_claim_id]]
    /\ claims' = claims @@ (next_claim_id :>
            new_claim("DuplicateFlag", addr1, addr2, "", evidence_len, stake_amount))
    /\ UNCHANGED <<clock, governance, vouches, links>>

(***************************************************************************)
(* instructions/consensus.rs: voting                                       *)
(***************************************************************************)
\* the VouchFor / VouchAgainst accounts with `init_if_needed` in place of
\* `init` on the vouch account
vouch_account_errs_init_if_needed(voucher, claim_id) ==
    governance_errs
    \cup (IF claim_id \in DOMAIN claims THEN {} ELSE {"AccountNotInitialized"})
    \cup (IF claim_id \in DOMAIN claims /\ claims[claim_id].status # "Active"
          THEN {"ClaimAlreadyResolved"} ELSE {})
    \cup (IF voucher \in DOMAIN identities THEN {} ELSE {"AccountNotInitialized"})
    \cup (IF voucher \in DOMAIN identities /\ ~can_vote(identities[voucher].tier)
          THEN {"InsufficientVotingWeight"} ELSE {})

\* the VouchFor / VouchAgainst accounts without the constraint
\* claim.status == Active
vouch_account_errs_without_status_check(voucher, claim_id) ==
    governance_errs
    \cup (IF claim_id \in DOMAIN claims THEN {} ELSE {"AccountNotInitialized"})
    \cup identity_errs(voucher)
    \cup (IF voucher \in DOMAIN identities /\ ~can_vote(identities[voucher].tier)
          THEN {"InsufficientVotingWeight"} ELSE {})
    \cup (IF <<claim_id, voucher>> \in DOMAIN vouches
          THEN {"AccountAlreadyInUse"} ELSE {})

\* #[derive(Accounts)] VouchFor / VouchAgainst
vouch_account_errs(voucher, claim_id) ==
    governance_errs
    \cup (IF claim_id \in DOMAIN claims THEN {} ELSE {"AccountNotInitialized"})
    \cup (IF claim_id \in DOMAIN claims /\ claims[claim_id].status # "Active"
          THEN {"ClaimAlreadyResolved"} ELSE {})
    \cup identity_errs(voucher)
    \cup (IF voucher \in DOMAIN identities /\ ~can_vote(identities[voucher].tier)
          THEN {"InsufficientVotingWeight"} ELSE {})
    \cup (IF <<claim_id, voucher>> \in DOMAIN vouches
          THEN {"AccountAlreadyInUse"} ELSE {})

\* vouch_handler_err without the expiry check
vouch_handler_err_without_expiry_check(voucher, claim_id, stake_amount) ==
    first_err(<<
        <<stake_amount >= governance.params.min_stake_lamports, "InsufficientStake">>,
        <<transfer_err(balances[voucher], stake_amount) = "Ok", "InsufficientFunds">> >>)

\* the checks of the vouch_for / vouch_against bodies
vouch_handler_err(voucher, claim_id, stake_amount) ==
    first_err(<<
        <<current_time < claims[claim_id].expires_at, "ClaimExpired">>,
        <<stake_amount >= governance.params.min_stake_lamports, "InsufficientStake">>,
        <<transfer_err(balances[voucher], stake_amount) = "Ok", "InsufficientFunds">> >>)

vouch_errs(voucher, claim_id, stake_amount) ==
    call_errs(vouch_account_errs(voucher, claim_id),
              vouch_handler_err(voucher, claim_id, stake_amount))

\* "Initialize vouch" block
new_vouch(voucher, claim_id, supports, stake_amount) ==
    [ claim_id        |-> claim_id,
      voucher         |-> voucher,
      supports        |-> supports,
      weight          |-> voting_weight(identities[voucher], governance.params),
      stake           |-> stake_amount,
      vouched_at      |-> current_time,
      rewards_claimed |-> FALSE,
      reward_amount   |-> 0 ]

\* "Update claim totals" block without its overflow checks
accumulate_err_unchecked(voucher, claim_id, supports, stake_amount) == "Ok"

\* "Update claim totals" block: the checked_add of the weighted vote to the
\* total of its side (u128) and of the stake to total_stake (u64).  vouch_count
\* (u32) counts Vouch accounts of the claim, one per voucher, and stays far
\* below its width.
accumulate_err(voucher, claim_id, supports, stake_amount) ==
    LET vote  == weighted_vote(new_vouch(voucher, claim_id, supports, stake_amount))
        total == IF supports THEN claims[claim_id].total_votes_for
                 ELSE claims[claim_id].total_votes_against
    IN  first_err(<<
            <<total + vote < VotesModulus, "ArithmeticOverflow">>,
            <<claims[claim_id].total_stake + stake_amount < StakeModulus,
              "ArithmeticOverflow">> >>)

vouch_for(voucher, claim_id, stake_amount) ==
    /\ vouch_errs(voucher, claim_id, stake_amount) = {}
    /\ accumulate_err(voucher, claim_id, TRUE, stake_amount) = "Ok"
    /\ balances' = [balances EXCEPT ![voucher] = @ - stake_amount]
    /\ escrow' = escrow + stake_amount
    /\ vouches' = vouches @@ (<<claim_id, voucher>> :>
            new_vouch(voucher, claim_id, TRUE, stake_amount))
    /\ claims' = [claims EXCEPT ![claim_id] = [@ EXCEPT
            !.total_votes_for = @ + weighted_vote(
                                      new_vouch(voucher, claim_id, TRUE, stake_amount)),
            !.total_stake = @ + stake_amount,
            !.vouch_count = @ + 1]]
    /\ UNCHANGED <<clock, governance, identities, links>>

vouch_against(voucher, claim_id, stake_amount) ==
    /\ vouch_errs(voucher, claim_id, stake_amount) = {}
    /\ accumulate_err(voucher, claim_id, FALSE, stake_amount) = "Ok"
    /\ balances' = [balances EXCEPT ![voucher] = @ - stake_amount]
    /\ escrow' = escrow + stake_amount
    /\ vouches' = vouches @@ (<<claim_id, voucher>> :>
            new_vouch(voucher, claim_id, FALSE, stake_amount))
    /\ claims' = [claims EXCEPT ![claim_id] = [@ EXCEPT
            !.total_votes_against = @ + weighted_vote(
                                      new_vouch(voucher, claim_id, FALSE, stake_amount)),
            !.total_stake = @ + stake_amount,
            !.vouch_count = @ + 1]]
    /\ UNCHANGED <<clock, governance, identities, links>>

(***************************************************************************)
(* instructions/consensus.rs: resolution                                   *)
(***************************************************************************)
\* #[derive(Accounts)] ResolveConsensus
resolve_account_errs(claim_id) ==
    governance_errs
    \cup (IF claim_id \in DOMAIN claims THEN {} ELSE {"AccountNotInitialized"})
    \cup (IF claim_id \in DOMAIN claims
          THEN identity_errs(claims[claim_id].subject) ELSE {})

\* resolve_outcome without its first check (claim.status == Active)
resolve_outcome_without_status_check(claim_id, overflow_checks) ==
    LET claim == claims[claim_id]
        consensus_result == consensus_reached([claim EXCEPT !.status = "Active"],
                                              governance.params, overflow_checks)
    IN  IF current_time >= claim.expires_at THEN "Expired"
        ELSE IF consensus_result = "Some(true)" THEN "Approved"
        ELSE IF consensus_result = "Some(false)" THEN "Rejected"
        ELSE IF consensus_result = "panic" THEN "Panic"
        ELSE "ClaimNotReadyToResolve"

\* resolve_outcome with the expiry check moved behind the evaluation of votes
resolve_outcome_votes_before_expiry(claim_id, overflow_checks) ==
    LET claim == claims[claim_id]
        consensus_result == consensus_reached(claim, governance.params, overflow_checks)
    IN  IF claim.status # "Active" THEN "ClaimAlreadyResolved"
        ELSE IF consensus_result = "Some(true)" THEN "Approved"
        ELSE IF current_time >= claim.expires_at THEN "Expired"
        ELSE IF consensus_result = "Some(false)" THEN "Rejected"
        ELSE IF consensus_result = "panic" THEN "Panic"
        ELSE "ClaimNotReadyToResolve"

\* what the body of resolve_consensus does with the claim: an error, or the
\* status it writes
resolve_outcome(claim_id, overflow_checks) ==
    LET claim == claims[claim_id]
        consensus_result == consensus_reached(claim, governance.params, overflow_checks)
    IN  IF claim.status # "Active" THEN "ClaimAlreadyResolved"
        ELSE IF current_time >= claim.expires_at THEN "Expired"
        ELSE IF consensus_result = "Some(true)" THEN "Approved"
        ELSE IF consensus_result = "Some(false)" THEN "Rejected"
        ELSE IF consensus_result = "panic" THEN "Panic"
        ELSE "ClaimNotReadyToResolve"

resolve_consensus_errs(claim_id, overflow_checks) ==
    call_errs(resolve_account_errs(claim_id),
              IF resolve_outcome(claim_id, overflow_checks)
                    \in {"Expired", "Approved", "Rejected"}
              THEN "Ok" ELSE resolve_outcome(claim_id, overflow_checks))

\* resolved_identity that leaves verified_at as it was on a NewPrimary
\* approval
resolved_identity_keeps_verified_at(identity, claim, outcome) ==
    LET failed == [identity EXCEPT !.last_failed_claim_at = current_time]
        approved ==
            CASE claim.claim_type = "LinkToPrimary" -> identity
              [] claim.claim_type = "NewPrimary" ->
                    [identity EXCEPT !.tier = "PrimaryID"]
              [] claim.claim_type = "DuplicateFlag" ->
                    [identity EXCEPT !.tier = "GreyGhost", !.verified_at = 0]
        decided == IF outcome = "Approved" THEN approved ELSE failed
    IN  IF outcome = "Expired" THEN failed
        ELSE IF claim.claim_type = "DuplicateFlag"
             THEN [decided EXCEPT !.under_challenge = FALSE,
                                  !.challenge_claim_id = 0]
        ELSE decided

\* resolved_identity that leaves verified_at as it was on a DuplicateFlag
\* approval
resolved_identity_flag_keeps_verified_at(identity, claim, outcome) ==
    LET failed == [identity EXCEPT !.last_failed_claim_at = current_time]
        approved ==
            CASE claim.claim_type = "LinkToPrimary" -> identity
              [] claim.claim_type = "NewPrimary" ->
                    [identity EXCEPT !.tier = "PrimaryID",
                                     !.verified_at = current_time]
              [] claim.claim_type = "DuplicateFlag" ->
                    [identity EXCEPT !.tier = "GreyGhost"]
        decided == IF outcome = "Approved" THEN approved ELSE failed
    IN  IF outcome = "Expired" THEN failed
        ELSE IF claim.claim_type = "DuplicateFlag"
             THEN [decided EXCEPT !.under_challenge = FALSE,
                                  !.challenge_claim_id = 0]
        ELSE decided

\* resolved_identity that writes last_failed_claim_at on every outcome
resolved_identity_always_failed(identity, claim, outcome) ==
    LET failed == [identity EXCEPT !.last_failed_claim_at = current_time]
        approved ==
            CASE claim.claim_type = "LinkToPrimary" -> failed
              [] claim.claim_type = "NewPrimary" ->
                    [failed EXCEPT !.tier = "PrimaryID",
                                   !.verified_at = current_time]
              [] claim.claim_type = "DuplicateFlag" ->
                    [failed EXCEPT !.tier = "GreyGhost", !.verified_at = 0]
        decided == IF outcome = "Approved" THEN approved ELSE failed
    IN  IF outcome = "Expired" THEN failed
        ELSE IF claim.claim_type = "DuplicateFlag"
             THEN [decided EXCEPT !.under_challenge = FALSE,
                                  !.challenge_claim_id = 0]
        ELSE decided

\* the subject identity after a resolution with the given outcome
resolved_identity(identity, claim, outcome) ==
    LET failed == [identity EXCEPT !.last_failed_claim_at = current_time]
        approved ==
            CASE claim.claim_type = "LinkToPrimary" -> identity
              [] claim.claim_type = "NewPrimary" ->
                    [identity EXCEPT !.tier = "PrimaryID",
                                     !.verified_at = current_time]
              [] claim.claim_type = "DuplicateFlag" ->
                    [identity EXCEPT !.tier = "GreyGhost", !.verified_at = 0]
        decided == IF outcome = "Approved" THEN approved ELSE failed
    IN  IF outcome = "Expired" THEN failed
        ELSE IF claim.claim_type = "DuplicateFlag"
             THEN [decided EXCEPT !.under_challenge = FALSE,
                                  !.challenge_claim_id = 0]
        ELSE decided

resolve_consensus(claim_id, overflow_checks) ==
    /\ resolve_consensus_errs(claim_id, overflow_checks) = {}
    /\ claims' = [claims EXCEPT ![claim_id] =
            [@ EXCEPT !.status = resolve_outcome(claim_id, overflow_checks)]]
    /\ identities' = [identities EXCEPT ![claims[claim_id].subject] =
            resolved_identity(@, claims[claim_id],
                              resolve_outcome(claim_id, overflow_checks))]
    /\ UNCHANGED <<clock, governance, vouches, links, balances, escrow>>

(***************************************************************************)
(* instructions/consensus.rs: reward settlement                            *)
(***************************************************************************)
\* the ClaimRewards accounts without the `!vouch.rewards_claimed` constraint
claim_rewards_account_errs_without_claimed_check(voucher, claim_id, vouch_key) ==
    (IF claim_id \in DOMAIN claims THEN {} ELSE {"AccountNotInitialized"})
    \cup (IF claim_id \in DOMAIN claims /\ ~is_resolved(claims[claim_id].status)
          THEN {"ClaimNotReadyToResolve"} ELSE {})
    \cup (IF vouch_key \in DOMAIN vouches THEN {} ELSE {"AccountNotInitialized"})
    \cup (IF vouch_key # <<claim_id, voucher>> THEN {"ConstraintSeeds"} ELSE {})
    \cup (IF vouch_key \in DOMAIN vouches /\ vouches[vouch_key].voucher # voucher
          THEN {"NotAVoter"} ELSE {})

\* the ClaimRewards accounts without the `claim.status.is_resolved()` constraint
claim_rewards_account_errs_without_resolved_check(voucher, claim_id, vouch_key) ==
    (IF claim_id \in DOMAIN claims THEN {} ELSE {"AccountNotInitialized"})
    \cup (IF vouch_key \in DOMAIN vouches THEN {} ELSE {"AccountNotInitialized"})
    \cup (IF vouch_key # <<claim_id, voucher>> THEN {"ConstraintSeeds"} ELSE {})
    \cup (IF vouch_key \in DOMAIN vouches /\ vouches[vouch_key].voucher # voucher
          THEN {"NotAVoter"} ELSE {})
    \cup (IF vouch_key \in DOMAIN vouches /\ vouches[vouch_key].rewards_claimed
          THEN {"RewardsAlreadyClaimed"} ELSE {})

\* #[derive(Accounts)] ClaimRewards; vouch_key is the address of the Vouch
\* account passed by the caller
claim_rewards_account_errs(voucher, claim_id, vouch_key) ==
    (IF claim_id \in DOMAIN claims THEN {} ELSE {"AccountNotInitialized"})
    \cup (IF claim_id \in DOMAIN claims /\ ~is_resolved(claims[claim_id].status)
          THEN {"ClaimNotReadyToResolve"} ELSE {})
    \cup (IF vouch_key \in DOMAIN vouches THEN {} ELSE {"AccountNotInitialized"})
    \cup (IF vouch_key # <<claim_id, voucher>> THEN {"ConstraintSeeds"} ELSE {})
    \cup (IF vouch_key \in DOMAIN vouches /\ vouches[vouch_key].voucher # voucher
          THEN {"NotAVoter"} ELSE {})
    \cup (IF vouch_key \in DOMAIN vouches /\ vouches[vouch_key].rewards_claimed
          THEN {"RewardsAlreadyClaimed"} ELSE {})

\* is_winner with supporters of an Expired claim counted as winners
is_winner_expired_as_approved(claim, vouch) ==
    CASE claim.status = "Approved" -> vouch.supports
      [] claim.status = "Rejected" -> ~vouch.supports
      [] claim.status = "Expired"  -> vouch.supports
      [] OTHER -> FALSE

\* "Determine if this voucher was on winning side"
is_winner(claim, vouch) ==
    CASE claim.status = "Approved" -> vouch.supports
      [] claim.status = "Rejected" -> ~vouch.supports
      [] OTHER -> FALSE

\* the amount claim_rewards transfers out of escrow
reward_of(claim, vouch) == IF is_winner(claim, vouch) THEN vouch.stake ELSE 0

claim_rewards_errs(voucher, claim_id, vouch_key) ==
    call_errs(claim_rewards_account_errs(voucher, claim_id, vouch_key),
              IF is_winner(claims[claim_id], vouches[vouch_key])
              THEN transfer_err(escrow, vouches[vouch_key].stake)
              ELSE "Ok")

claim_rewards(voucher, claim_id, vouch_key) ==
    /\ claim_rewards_errs(voucher, claim_id, vouch_key) = {}
    /\ LET reward == reward_of(claims[claim_id], vouches[vouch_key])
       IN  /\ escrow' = escrow - reward
           /\ balances' = [balances EXCEPT ![voucher] = @ + reward]
           /\ vouches' = [vouches EXCEPT ![vouch_key] =
                  [@ EXCEPT !.reward_amount =
                                IF is_winner(claims[claim_id], vouches[vouch_key])
                                THEN reward ELSE @,
                            !.rewards_claimed = TRUE]]
    /\ UNCHANGED <<clock, governance, identities, claims, links>>

(***************************************************************************)
(* The clock and the next-state relation                                   *)
(***************************************************************************)
Tick ==
    /\ clock < MaxClock
    /\ clock' = clock + 1
    /\ UNCHANGED <<governance, identities, claims, vouches, links, balances, escrow>>

\* the claims engine: governance set-up, registration, NewPrimary proposals,
\* votes, resolution and settlement, with the clock running
NextConsensus ==
    \/ Tick
    \/ \E p \in ParamChoices : initialize_governance(Admin, p)
    \/ \E s \in Signers, p \in ParamChoices : update_governance_params(s, p)
    \/ \E a \in Addrs : initialize_identity(a)
    \/ \E a \in Addrs, j \in TextLens, st \in ProposalStakes, oc \in BOOLEAN :
            request_primary_verification(a, j, st, oc)
    \/ \E v \in Addrs, c \in ClaimIds, st \in StakeChoices : vouch_for(v, c, st)
    \/ \E v \in Addrs, c \in ClaimIds, st \in StakeChoices : vouch_against(v, c, st)
    \/ \E c \in ClaimIds, oc \in BOOLEAN : resolve_consensus(c, oc)
    \/ \E v \in Addrs, c \in ClaimIds, k \in ClaimIds \X Addrs : claim_rewards(v, c, k)

SpecConsensus == Init /\ [][NextConsensus]_vars

\* duplicate challenges next to the two other proposal kinds, with votes,
\* resolution and the clock, from the state with the first voters
NextChallenge ==
    \/ Tick
    \/ \E a, b \in Addrs, p \in Platforms, j \in TextLens, st \in ProposalStakes :
            request_link_to_primary(a, b, p, j, st)
    \/ \E a \in Addrs, j \in TextLens, st \in ProposalStakes, oc \in BOOLEAN :
            request_primary_verification(a, j, st, oc)
    \/ \E ch, a, b \in Addrs, j \in TextLens, st \in ProposalStakes,
          oc \in BOOLEAN :
            challenge_duplicate(ch, a, b, j, st, oc)
    \/ \E v \in Addrs, c \in ClaimIds, st \in StakeChoices : vouch_for(v, c, st)
    \/ \E v \in Addrs, c \in ClaimIds, st \in StakeChoices : vouch_against(v, c, st)
    \/ \E c \in ClaimIds, oc \in BOOLEAN : resolve_consensus(c, oc)

SpecChallenge == Genesis /\ [][NextChallenge]_vars

\* the operations that write Identity.tier other than by a NewPrimary
\* approval: oracle upgrade, linking, and duplicate challenges with their
\* supporting votes and resolution
Challengers == {"C"}                      \* challenger signers
SingleStake == {34}                       \* stake_amount arguments of votes
LinkPlatforms == {"github"}               \* platform arguments of link_identity
NextTiers ==
    \/ Tick
    \/ \E a \in Addrs, s \in Signers : upgrade_to_oracle(a, s)
    \/ \E a, b \in Addrs, p \in LinkPlatforms : link_identity(a, b, p)
    \/ \E ch \in Challengers, a, b \in Addrs, j \in TextLens, st \in ProposalStakes,
          oc \in BOOLEAN :
            challenge_duplicate(ch, a, b, j, st, oc)
    \/ \E v \in Addrs, c \in ClaimIds, st \in SingleStake : vouch_for(v, c, st)
    \/ \E c \in ClaimIds, oc \in BOOLEAN : resolve_consensus(c, oc)

SpecTiers == Genesis /\ [][NextTiers]_vars

\* votes on duplicate challenges while the tiers of the voters and the vote
\* weights change
LinkPairs == {<<"A", "B">>}               \* (primary, linked) of link_identity
NextWeights ==
    \/ Tick
    \/ \E s \in Signers : update_governance_params(s, HeavyVoteParams)
    \/ \E a \in Addrs, s \in Signers : upgrade_to_oracle(a, s)
    \/ \E pl \in LinkPairs, p \in LinkPlatforms : link_identity(pl[1], pl[2], p)
    \/ \E ch \in Challengers, a, b \in Addrs, j \in TextLens, st \in ProposalStakes,
          oc \in BOOLEAN :
            challenge_duplicate(ch, a, b, j, st, oc)
    \/ \E v \in Addrs, c \in ClaimIds, st \in SingleStake : vouch_for(v, c, st)
    \/ \E v \in Addrs, c \in ClaimIds, st \in SingleStake : vouch_against(v, c, st)
    \/ \E c \in ClaimIds, oc \in BOOLEAN : resolve_consensus(c, oc)

SpecWeights == Genesis /\ [][NextWeights]_vars

\* proposals and their expiry while claim_expiry_duration is updated and the
\* governance time is warped
NextExpiry ==
    \/ Tick
    \/ \E s \in Signers, p \in ExpiryParamChoices : update_governance_params(s, p)
    \/ \E s \in Signers, w \in WarpChoices : time_warp(s, w)
    \/ \E a, b \in Addrs, p \in LinkPlatforms, j \in TextLens, st \in ProposalStakes :
            request_link_to_primary(a, b, p, j, st)
    \/ \E a \in Addrs, j \in TextLens, st \in ProposalStakes, oc \in BOOLEAN :
            request_primary_verification(a, j, st, oc)
    \/ \E ch \in Challengers, a, b \in Addrs, j \in TextLens, st \in ProposalStakes,
          oc \in BOOLEAN :
            challenge_duplicate(ch, a, b, j, st, oc)
    \/ \E c \in ClaimIds, oc \in BOOLEAN : resolve_consensus(c, oc)

SpecExpiry == Genesis /\ [][NextExpiry]_vars

\* NewPrimary claims voted on by PrimaryID and Oracle identities
UnitStake == {1}                          \* stake_amount arguments of votes
NextOracle ==
    \/ Tick
    \/ \E a \in Addrs, s \in Signers : upgrade_to_oracle(a, s)
    \/ \E a \in Addrs, j \in TextLens, st \in ProposalStakes, oc \in BOOLEAN :
            request_primary_verification(a, j, st, oc)
    \/ \E v \in Addrs, c \in ClaimIds, st \in UnitStake : vouch_for(v, c, st)
    \/ \E v \in Addrs, c \in ClaimIds, st \in UnitStake : vouch_against(v, c, st)
    \/ \E c \in ClaimIds, oc \in BOOLEAN : resolve_consensus(c, oc)

SpecOracle == Genesis /\ [][NextOracle]_vars

\* the stake requirement of the three proposals under changing min_stake_lamports
NextStake ==
    \/ Tick
    \/ \E s \in Signers, p \in StakeParamChoices : update_governance_params(s, p)
    \/ \E a, b \in Addrs, p \in LinkPlatforms, j \in TextLens, st \in ProposalStakes :
            request_link_to_primary(a, b, p, j, st)
    \/ \E a \in Addrs, j \in TextLens, st \in ProposalStakes, oc \in BOOLEAN :
            request_primary_verification(a, j, st, oc)
    \/ \E ch \in Challengers, a, b \in Addrs, j \in TextLens, st \in ProposalStakes,
          oc \in BOOLEAN :
            challenge_duplicate(ch, a, b, j, st, oc)
    \/ \E c \in ClaimIds, oc \in BOOLEAN : resolve_consensus(c, oc)

SpecStake == Genesis /\ [][NextStake]_vars

\* parameter updates with other slash rates, next to NewPrimary claims
NextSlash ==
    \/ Tick
    \/ \E s \in Signers, p \in SlashParamChoices : update_governance_params(s, p)
    \/ \E a \in Addrs, j \in TextLens, st \in ProposalStakes, oc \in BOOLEAN :
            request_primary_verification(a, j, st, oc)
    \/ \E c \in ClaimIds, oc \in BOOLEAN : resolve_consensus(c, oc)

SpecSlash == Genesis /\ [][NextSlash]_vars

\* votes under a vote weight that takes the totals to the end of their width
NextOverflow ==
    \/ Tick
    \/ \E s \in Signers, p \in VoteParamChoices : update_governance_params(s, p)
    \/ \E a \in Addrs, j \in TextLens, st \in SingleStake, oc \in BOOLEAN :
            request_primary_verification(a, j, st, oc)
    \/ \E v \in Addrs, c \in ClaimIds, st \in SingleStake : vouch_for(v, c, st)
    \/ \E v \in Addrs, c \in ClaimIds, st \in SingleStake : vouch_against(v, c, st)

SpecOverflow == Genesis /\ [][NextOverflow]_vars

\* votes and resolutions under a vote weight that takes total_votes_for * 10000
\* beyond the width of a vote total
NextBps ==
    \/ Tick
    \/ \E s \in Signers, p \in BpsParamChoices : update_governance_params(s, p)
    \/ \E a \in Addrs, j \in TextLens, st \in SingleStake, oc \in BOOLEAN :
            request_primary_verification(a, j, st, oc)
    \/ \E v \in Addrs, c \in ClaimIds, st \in SingleStake : vouch_for(v, c, st)
    \/ \E v \in Addrs, c \in ClaimIds, st \in SingleStake : vouch_against(v, c, st)
    \/ \E c \in ClaimIds, oc \in BOOLEAN : resolve_consensus(c, oc)

SpecBps == Genesis /\ [][NextBps]_vars

\* the claims of every type, their votes and resolutions while time advances.  The
\* clock stops at MaxClock, so a claim is proposed only while the clock can
\* still reach its expiry (CanExpire); every resolve_consensus call that
\* can succeed is eventually made.
CanExpire == current_time + governance.params.claim_expiry_duration <= MaxClock

NextLive ==
    \/ Tick
    \/ \E a, b \in Addrs, p \in Platforms, j \in TextLens, st \in ProposalStakes :
            CanExpire /\ request_link_to_primary(a, b, p, j, st)
    \/ \E a \in Addrs, j \in TextLens, st \in ProposalStakes, oc \in BOOLEAN :
            CanExpire /\ request_primary_verification(a, j, st, oc)
    \/ \E ch, a, b \in Addrs, j \in TextLens, st \in ProposalStakes,
          oc \in BOOLEAN :
            CanExpire /\ challenge_duplicate(ch, a, b, j, st, oc)
    \/ \E v \in Addrs, c \in ClaimIds, st \in StakeChoices : vouch_for(v, c, st)
    \/ \E v \in Addrs, c \in ClaimIds, st \in StakeChoices : vouch_against(v, c, st)
    \/ \E c \in ClaimIds, oc \in BOOLEAN : resolve_consensus(c, oc)

SpecLive ==
    /\ Genesis
    /\ [][NextLive]_vars
    /\ WF_vars(Tick)
    /\ \A c \in ClaimIds : WF_vars(\E oc \in BOOLEAN : resolve_consensus(c, oc))

\* every instruction of the program
Next ==
    \/ NextConsensus
    \/ \E s \in Signers, w \in WarpChoices : time_warp(s, w)
    \/ \E s \in Signers : renounce_god_mode(s)
    \/ \E a \in Addrs, s \in Signers : upgrade_to_oracle(a, s)
    \/ \E a, b \in Addrs, p \in Platforms : link_identity(a, b, p)
    \/ \E a, b \in Addrs, p \in Platforms, j \in TextLens, st \in ProposalStakes :
            request_link_to_primary(a, b, p, j, st)
    \/ \E ch, a, b \in Addrs, j \in TextLens, st \in ProposalStakes,
          oc \in BOOLEAN :
            challenge_duplicate(ch, a, b, j, st, oc)

Spec == Init /\ [][Next]_vars
(***************************************************************************)
(* Properties                                                              *)
(***************************************************************************)
Terminal == {"Approved", "Rejected", "Expired"}

\* the step resolves claim c
Resolves(c) ==
    /\ c \in DOMAIN claims
    /\ claims[c].status = "Active"
    /\ claims'[c].status # "Active"

\* C1: a claim is created Active, its status changes at most once and only
\* from Active to Approved, Rejected or Expired, no step of any operation
\* changes a terminal status, and resolve_consensus on a claim that is no
\* longer Active fails with ClaimAlreadyResolved.
C1_StatusWriteOnce ==
    /\ [](\A c \in DOMAIN claims, oc \in BOOLEAN :
            claims[c].status # "Active" =>
                resolve_consensus_errs(c, oc) = {"ClaimAlreadyResolved"})
    /\ [][ /\ \A c \in DOMAIN claims :
                /\ c \in DOMAIN claims'
                /\ claims'[c].status # claims[c].status =>
                        /\ claims[c].status = "Active"
                        /\ claims'[c].status \in Terminal
           /\ \A c \in DOMAIN claims' \ DOMAIN claims :
                claims'[c].status = "Active" ]_vars

\* a claim proposed in this run has expired and another one was rejected,
\* next to the approved ones
C1_Witness ==
    \E c, d, e \in DOMAIN claims :
        /\ claims[c].status = "Expired"
        /\ claims[d].status = "Rejected"
        /\ claims[e].status = "Approved"

\* C2: a resolution at now >= expires_at (now = expires_at included) makes
\* the claim Expired, sets the subject's last_failed_claim_at to now and
\* leaves the subject's tier and verified_at as they were, whatever votes the
\* claim has collected; and resolve_consensus does succeed on every Active
\* claim that has reached expires_at.
C2_ExpiryBeforeVotes ==
    /\ [](\A c \in DOMAIN claims, oc \in BOOLEAN :
            (claims[c].status = "Active" /\ current_time >= claims[c].expires_at)
                => resolve_consensus_errs(c, oc) = {})
    /\ [][ \A c \in DOMAIN claims :
                (Resolves(c) /\ current_time >= claims[c].expires_at) =>
                    /\ claims'[c].status = "Expired"
                    /\ identities'[claims[c].subject].last_failed_claim_at
                            = current_time
                    /\ identities'[claims[c].subject].tier
                            = identities[claims[c].subject].tier
                    /\ identities'[claims[c].subject].verified_at
                            = identities[claims[c].subject].verified_at ]_vars

\* an Unverified subject's claim expired at now = expires_at although its
\* votes met the approval threshold
C2_Witness ==
    \E c \in DOMAIN claims :
        /\ claims[c].status = "Expired"
        /\ claims[c].total_votes_for > 0
        /\ consensus_for_bps(claims[c], TRUE)
                >= required_threshold(claims[c].claim_type, governance.params)
        /\ required_threshold(claims[c].claim_type, governance.params) > 0
        /\ identities[claims[c].subject].tier = "GreyGhost"
        /\ identities[claims[c].subject].last_failed_claim_at = claims[c].expires_at

\* the threshold that applies to a claim
ThresholdOf(claim) == required_threshold(claim.claim_type, governance.params)

\* total_votes_for * 10000 >= threshold * (total_votes_for + total_votes_against)
\* over the integers, with a non-zero vote total
ExactApproval(claim) ==
    /\ claim.total_votes_for + claim.total_votes_against > 0
    /\ claim.total_votes_for * 10000
            >= ThresholdOf(claim) * (claim.total_votes_for + claim.total_votes_against)

\* C3: a resolution of an Active claim at now < expires_at sets Approved if
\* and only if total_votes_for * 10000 >= threshold * (total_votes_for +
\* total_votes_against) with a non-zero vote total, and resolve_consensus
\* succeeds on every such claim.
C3_ApprovedIffExactRatio ==
    /\ [](\A c \in DOMAIN claims, oc \in BOOLEAN :
            (/\ claims[c].status = "Active"
             /\ current_time < claims[c].expires_at
             /\ ExactApproval(claims[c]))
                => resolve_consensus_errs(c, oc) = {})
    /\ [][ \A c \in DOMAIN claims :
                (Resolves(c) /\ current_time < claims[c].expires_at) =>
                    (claims'[c].status = "Approved" <=> ExactApproval(claims[c])) ]_vars

\* under primary_threshold = 0 a claim without any vote has been Approved
\* before its expiry
C3_Witness ==
    \E c \in DOMAIN claims :
        /\ claims[c].status = "Approved"
        /\ claims[c].total_votes_for + claims[c].total_votes_against = 0
        /\ ThresholdOf(claims[c]) = 0
        /\ claims[c].created_at = current_time
        /\ identities[claims[c].subject].verified_at = current_time

\* C4: a resolution of an Active claim at now < expires_at sets Rejected only
\* if total_votes_for * 10000 <= (10000 - threshold) * (total_votes_for +
\* total_votes_against), the exact for-share being at most 10000 - threshold
\* basis points.
C4_RejectedOnlyAtExactShare ==
    [][ \A c \in DOMAIN claims :
            (/\ Resolves(c)
             /\ current_time < claims[c].expires_at
             /\ claims'[c].status = "Rejected")
                => claims[c].total_votes_for * 10000
                     <= (10000 - ThresholdOf(claims[c]))
                          * (claims[c].total_votes_for + claims[c].total_votes_against) ]_vars

\* under the default threshold a claim with 34 weighted votes for and 69
\* against has been Rejected before its expiry
C4_Witness ==
    \E c \in DOMAIN claims :
        /\ claims[c].status = "Rejected"
        /\ claims[c].total_votes_for = 34
        /\ claims[c].total_votes_against = 69
        /\ ThresholdOf(claims[c]) = DEFAULT_PRIMARY_THRESHOLD
        /\ current_time < claims[c].expires_at

\* the identities whose vote on claim c would be accepted now
EligibleVoters(c) ==
    {v \in DOMAIN identities : vouch_errs(v, c, balances[v]) = {}}

\* the weighted votes these identities add when each stakes all it holds
RECURSIVE MaxFurtherVotes(_)
MaxFurtherVotes(voters) ==
    IF voters = {} THEN 0
    ELSE LET v == CHOOSE x \in voters : TRUE
         IN  voting_weight(identities[v], governance.params) * balances[v]
                + MaxFurtherVotes(voters \ {v})

\* further accepted votes for claim c can lift consensus_bps to the threshold
CanStillApprove(c) ==
    /\ EligibleVoters(c) # {}
    /\ consensus_for_bps([claims[c] EXCEPT
            !.total_votes_for = @ + MaxFurtherVotes(EligibleVoters(c))], TRUE)
                >= ThresholdOf(claims[c])

\* C5: a resolution at now < expires_at sets Rejected only in a state from
\* which no further accepted votes, by identities that may still vote on the
\* claim, lift consensus_bps to the threshold.
C5_RejectedOnlyWhenUnreachable ==
    [][ \A c \in DOMAIN claims :
            (/\ Resolves(c)
             /\ current_time < claims[c].expires_at
             /\ claims'[c].status = "Rejected")
                => ~CanStillApprove(c) ]_vars

\* a claim without any vote has been Rejected before its expiry while two
\* PrimaryID identities hold the tokens for a vote
C5_Witness ==
    \E c \in DOMAIN claims :
        /\ claims[c].status = "Rejected"
        /\ claims[c].vouch_count = 0
        /\ current_time < claims[c].expires_at
        /\ ThresholdOf(claims[c]) = DEFAULT_PRIMARY_THRESHOLD
        /\ Cardinality({v \in DOMAIN identities :
                /\ can_vote(identities[v].tier)
                /\ balances[v] >= governance.params.min_stake_lamports}) >= 2

\* consensus_bps lies strictly between 10000 - threshold and threshold
Undecided(claim) ==
    /\ 10000 - ThresholdOf(claim) < consensus_for_bps(claim, TRUE)
    /\ consensus_for_bps(claim, TRUE) < ThresholdOf(claim)

\* C6: on an Active claim at now < expires_at whose consensus_bps lies
\* strictly between 10000 - threshold and threshold, resolve_consensus fails
\* with ClaimNotReadyToResolve, and no step taken from such a state changes
\* the status of the claim.
C6_UndecidedNotReady ==
    /\ [](\A c \in DOMAIN claims, oc \in BOOLEAN :
            (/\ claims[c].status = "Active"
             /\ current_time < claims[c].expires_at
             /\ Undecided(claims[c]))
                => resolve_consensus_errs(c, oc) = {"ClaimNotReadyToResolve"})
    /\ [][ \A c \in DOMAIN claims :
                (/\ claims[c].status = "Active"
                 /\ current_time < claims[c].expires_at
                 /\ Undecided(claims[c]))
                    => claims'[c].status = "Active" ]_vars

\* under primary_threshold = 20000 resolve_consensus on an Active, unexpired
\* claim panics in a build with overflow checks and succeeds in one without
C6_Witness ==
    \E c \in DOMAIN claims :
        /\ claims[c].status = "Active"
        /\ current_time < claims[c].expires_at
        /\ Undecided(claims[c])
        /\ resolve_consensus_errs(c, TRUE) = {"Panic"}
        /\ resolve_consensus_errs(c, FALSE) = {}

\* the Vouch records of claim c
VouchesOn(c) == {k \in DOMAIN vouches : k[1] = c}

\* C7: there is one Vouch record per (claim id, voucher) pair: the record is
\* the one of its pair, each claim counts as many votes as it has records,
\* every further vouch_for / vouch_against of a voucher that has a record on
\* the claim fails, the vote of a record never changes, and the totals of a
\* claim change only in a step that adds the record of a new pair.
C7_OneVouchPerPair ==
    /\ [](/\ \A k \in DOMAIN vouches :
                /\ vouches[k].claim_id = k[1]
                /\ vouches[k].voucher = k[2]
                /\ \A st \in StakeChoices :
                        "AccountAlreadyInUse" \in vouch_errs(k[2], k[1], st)
          /\ \A c \in DOMAIN claims :
                claims[c].vouch_count = Cardinality(VouchesOn(c)))
    /\ [][ /\ \A k \in DOMAIN vouches :
                /\ k \in DOMAIN vouches'
                /\ vouches'[k].supports = vouches[k].supports
                /\ vouches'[k].weight = vouches[k].weight
                /\ vouches'[k].stake = vouches[k].stake
           /\ \A c \in DOMAIN claims :
                (\/ claims'[c].total_votes_for # claims[c].total_votes_for
                 \/ claims'[c].total_votes_against # claims[c].total_votes_against
                 \/ claims'[c].total_stake # claims[c].total_stake
                 \/ claims'[c].vouch_count # claims[c].vouch_count)
                    => \E v \in Addrs :
                          /\ <<c, v>> \notin DOMAIN vouches
                          /\ DOMAIN vouches' = DOMAIN vouches \cup {<<c, v>>} ]_vars

\* a voucher with the means for another vote has a record on a claim that
\* is still open for votes, and a second vote fails on the record alone
C7_Witness ==
    \E k \in DOMAIN vouches :
        /\ claims[k[1]].status = "Active"
        /\ current_time < claims[k[1]].expires_at
        /\ \E st \in StakeChoices :
              /\ st >= governance.params.min_stake_lamports
              /\ st <= balances[k[2]]
              /\ vouch_errs(k[2], k[1], st) = {"AccountAlreadyInUse"}

\* the step settles Vouch k
Settles(k) ==
    /\ k \in DOMAIN vouches
    /\ ~vouches[k].rewards_claimed
    /\ vouches'[k].rewards_claimed

\* C8: a Vouch is settled once: a settled Vouch never changes again, every
\* claim_rewards call on it fails with RewardsAlreadyClaimed, a step settles
\* at most one Vouch, and tokens leave escrow or reach a token account only
\* in a step that settles a Vouch, escrow paying the stake of that Vouch.
C8_SettledOnce ==
    /\ [](\A k \in DOMAIN vouches, v \in Addrs, c \in ClaimIds :
            vouches[k].rewards_claimed =>
                "RewardsAlreadyClaimed" \in claim_rewards_errs(v, c, k))
    /\ [][ /\ \A k \in DOMAIN vouches :
                vouches[k].rewards_claimed => vouches'[k] = vouches[k]
           /\ Cardinality({k \in DOMAIN vouches : Settles(k)}) <= 1
           /\ escrow' < escrow =>
                \E k \in DOMAIN vouches :
                    Settles(k) /\ escrow - escrow' = vouches[k].stake
           /\ \A a \in Addrs :
                balances'[a] > balances[a] =>
                    \E k \in DOMAIN vouches : Settles(k) /\ k[2] = a ]_vars

\* a winner has been paid, escrow still holds as much as its stake, and a
\* second claim_rewards of the same voucher fails on rewards_claimed alone
C8_Witness ==
    \E k \in DOMAIN vouches :
        /\ vouches[k].rewards_claimed
        /\ vouches[k].reward_amount > 0
        /\ escrow >= vouches[k].stake
        /\ claim_rewards_errs(k[2], k[1], k) = {"RewardsAlreadyClaimed"}

\* Vouch k is on the side the resolution of its claim confirmed
WinningSide(k) ==
    \/ claims[k[1]].status = "Approved" /\ vouches[k].supports
    \/ claims[k[1]].status = "Rejected" /\ ~vouches[k].supports

\* C9: a step that settles a Vouch moves exactly vouch.stake from escrow to
\* the voucher and records it as reward_amount if the Vouch supports an
\* Approved claim or opposes a Rejected one; otherwise (every Vouch on an
\* Expired claim included) it moves nothing and reward_amount stays 0.
C9_WinnerGetsStake ==
    [][ \A k \in DOMAIN vouches :
            Settles(k) =>
                LET paid == IF WinningSide(k) THEN vouches[k].stake ELSE 0
                IN  /\ escrow' = escrow - paid
                    /\ balances' = [balances EXCEPT ![k[2]] = @ + paid]
                    /\ vouches'[k].reward_amount = paid ]_vars

\* a winner was paid its stake, and a supporter of an Expired claim was
\* settled with nothing
C9_Witness ==
    \E k, l \in DOMAIN vouches :
        /\ vouches[k].rewards_claimed
        /\ claims[k[1]].status \in {"Approved", "Rejected"}
        /\ vouches[k].reward_amount = vouches[k].stake
        /\ vouches[k].stake > 0
        /\ vouches[l].rewards_claimed
        /\ claims[l[1]].status = "Expired"
        /\ vouches[l].supports
        /\ vouches[l].reward_amount = 0

\* C10: claim_rewards succeeds only on a claim that is no longer Active and
\* for the caller's own unsettled Vouch on that claim; on an Active claim it
\* fails with ClaimNotReadyToResolve; and every step that settles a Vouch is
\* taken on a resolved claim.
C10_SettlementPreconditions ==
    /\ [](\A v \in Addrs, c \in ClaimIds, k \in ClaimIds \X Addrs :
            /\ claim_rewards_errs(v, c, k) = {} =>
                    /\ c \in DOMAIN claims
                    /\ claims[c].status \in Terminal
                    /\ k = <<c, v>>
                    /\ k \in DOMAIN vouches
                    /\ vouches[k].voucher = v
                    /\ vouches[k].claim_id = c
                    /\ ~vouches[k].rewards_claimed
            /\ (c \in DOMAIN claims /\ claims[c].status = "Active") =>
                    "ClaimNotReadyToResolve" \in claim_rewards_errs(v, c, k))
    /\ [][ \A k \in DOMAIN vouches :
                Settles(k) => claims[k[1]].status \in Terminal ]_vars

\* a voucher's call on its own Vouch fails only because the claim is still
\* Active, while another voucher's call on a Vouch of a resolved claim fails
\* and that Vouch is unsettled
C10_Witness ==
    \E k, l \in DOMAIN vouches :
        /\ claims[k[1]].status = "Active"
        /\ claim_rewards_errs(k[2], k[1], k) = {"ClaimNotReadyToResolve"}
        /\ claims[l[1]].status \in Terminal
        /\ ~vouches[l].rewards_claimed
        /\ claim_rewards_errs(l[2], l[1], l) = {}
        /\ \E v \in Addrs \ {l[2]} : "NotAVoter" \in claim_rewards_errs(v, l[1], l)

\* the identity names, by challenge_claim_id, an Active DuplicateFlag claim
NamesActiveFlag(a) ==
    /\ identities[a].challenge_claim_id \in DOMAIN claims
    /\ claims[identities[a].challenge_claim_id].status = "Active"
    /\ claims[identities[a].challenge_claim_id].claim_type = "DuplicateFlag"

\* C11: in every reachable state, an identity with under_challenge = true
\* has a challenge_claim_id that is the id of an existing claim of type
\* DuplicateFlag with status Active; this for the subject and for the related
\* address of a challenge, after every kind of resolution.
C11_ChallengeNamesActiveFlag ==
    \A a \in DOMAIN identities :
        identities[a].under_challenge => NamesActiveFlag(a)

\* a challenge was resolved and its subject is no longer under challenge
C11_Witness ==
    \E c \in DOMAIN claims :
        /\ claims[c].claim_type = "DuplicateFlag"
        /\ claims[c].status \in {"Approved", "Rejected"}
        /\ ~identities[claims[c].subject].under_challenge

\* Unverified < Linked < Verified < Oracle
TierRank(tier) ==
    CASE tier = "GreyGhost" -> 0
      [] tier = "LinkedID"  -> 1
      [] tier = "PrimaryID" -> 2
      [] tier = "Oracle"    -> 3

\* the step approves a DuplicateFlag claim whose subject is a
ApprovesFlagOn(a) ==
    \E c \in DOMAIN claims :
        /\ claims[c].claim_type = "DuplicateFlag"
        /\ claims[c].subject = a
        /\ Resolves(c)
        /\ claims'[c].status = "Approved"

\* C12: no step lowers the tier of an identity in the order
\* Unverified < Linked < Verified < Oracle, except a step that approves a
\* DuplicateFlag claim on it and takes it from Verified or Oracle to
\* Unverified; in particular link_identity, upgrade_to_oracle and the
\* approval of a NewPrimary claim never lower a tier.
C12_TierMonotonic ==
    [][ \A a \in DOMAIN identities :
            /\ a \in DOMAIN identities'
            /\ TierRank(identities'[a].tier) < TierRank(identities[a].tier) =>
                    /\ identities[a].tier \in {"PrimaryID", "Oracle"}
                    /\ identities'[a].tier = "GreyGhost"
                    /\ ApprovesFlagOn(a) ]_vars

\* an Oracle was demoted to Unverified by an approved DuplicateFlag claim
C12_Witness ==
    \E c \in DOMAIN claims :
        /\ claims[c].claim_type = "DuplicateFlag"
        /\ claims[c].status = "Approved"
        /\ identities[claims[c].subject].tier = "GreyGhost"
        /\ identities[claims[c].subject].oracle_decay_start > 0

\* the Vouch records created by the step
NewVouches == DOMAIN vouches' \ DOMAIN vouches

\* weight * stake of the votes of the step on claim c and side supports
NewVotes(c, supports) ==
    IF \E k \in NewVouches : k[1] = c /\ vouches'[k].supports = supports
    THEN LET k == CHOOSE k \in NewVouches :
                      k[1] = c /\ vouches'[k].supports = supports
         IN  vouches'[k].weight * vouches'[k].stake
    ELSE 0

\* C13: the weight written into a new Vouch is the vote weight of the
\* voter's tier under the parameters in force in that step (PrimaryID ->
\* primary_vote_weight, Oracle -> oracle_vote_weight); afterwards weight,
\* stake and side of the Vouch never change, and the totals of a claim change
\* only by weight * stake of a vote cast in the step, whatever happens to
\* the tier of a voter or to the vote weights.
C13_WeightFrozenAtVote ==
    [][ /\ Cardinality(NewVouches) <= 1
        /\ \A k \in NewVouches :
                /\ identities[k[2]].tier \in {"PrimaryID", "Oracle"}
                /\ vouches'[k].weight =
                        IF identities[k[2]].tier = "Oracle"
                        THEN governance.params.oracle_vote_weight
                        ELSE governance.params.primary_vote_weight
        /\ \A k \in DOMAIN vouches :
                /\ k \in DOMAIN vouches'
                /\ vouches'[k].weight = vouches[k].weight
                /\ vouches'[k].stake = vouches[k].stake
                /\ vouches'[k].supports = vouches[k].supports
        /\ \A c \in DOMAIN claims :
                /\ claims'[c].total_votes_for =
                        claims[c].total_votes_for + NewVotes(c, TRUE)
                /\ claims'[c].total_votes_against =
                        claims[c].total_votes_against + NewVotes(c, FALSE) ]_vars

\* votes were cast at weight 1 by a voter who is an Oracle now and by a
\* voter who cannot vote any more, and PrimaryID votes weigh 2 now
C13_Witness ==
    /\ governance.params.primary_vote_weight = 2
    /\ \E k \in DOMAIN vouches :
            /\ identities[k[2]].tier = "Oracle"
            /\ vouches[k].weight = 1
    /\ \E k \in DOMAIN vouches :
            /\ identities[k[2]].tier \in {"GreyGhost", "LinkedID"}
            /\ vouches[k].weight = 1

\* the claims created by the step
NewClaims == DOMAIN claims' \ DOMAIN claims

\* the step moved `paid` tokens, at least the minimum stake and no more than
\* the payer held, from one token account into the escrow
StakePaid ==
    LET paid == escrow' - escrow
    IN  /\ paid >= governance.params.min_stake_lamports
        /\ \E payer \in Addrs :
                /\ paid <= balances[payer]
                /\ balances' = [balances EXCEPT ![payer] = @ - paid]

RECURSIVE SumVotes(_)
SumVotes(ks) ==
    IF ks = {} THEN 0
    ELSE LET k == CHOOSE k \in ks : TRUE
         IN  vouches[k].weight * vouches[k].stake + SumVotes(ks \ {k})

\* the Vouch records of claim c on one side
SideOf(c, supports) == {k \in VouchesOn(c) : vouches[k].supports = supports}

\* C15: in every reachable state total_votes_for of a claim is the sum of
\* weight * stake over its Vouch records with supports = true,
\* total_votes_against the sum over those with supports = false, and
\* vouch_count the number of its Vouch records; no Vouch ever disappears
\* and a vote on one side leaves the total of the other side unchanged.
C15_TotalsAreSums ==
    /\ [](\A c \in DOMAIN claims :
            /\ claims[c].total_votes_for = SumVotes(SideOf(c, TRUE))
            /\ claims[c].total_votes_against = SumVotes(SideOf(c, FALSE))
            /\ claims[c].vouch_count = Cardinality(VouchesOn(c)))
    /\ [][ /\ DOMAIN vouches \subseteq DOMAIN vouches'
           /\ \A k \in NewVouches :
                IF vouches'[k].supports
                THEN claims'[k[1]].total_votes_against
                        = claims[k[1]].total_votes_against
                ELSE claims'[k[1]].total_votes_for
                        = claims[k[1]].total_votes_for ]_vars

\* two voters of different weight voted on opposite sides of one claim
C15_Witness ==
    \E c \in DOMAIN claims :
        /\ \E k \in SideOf(c, TRUE), n \in SideOf(c, FALSE) :
                vouches[k].weight # vouches[n].weight
        /\ claims[c].total_votes_for > 0
        /\ claims[c].total_votes_against > 0

\* C16: the claim created by a successful proposal of any of the three kinds
\* is Active and has total_votes_for, total_votes_against, total_stake,
\* total_slashed and vouch_count all equal to 0.
C16_NewClaimZeroed ==
    [][ \A c \in NewClaims :
            /\ claims'[c].status = "Active"
            /\ claims'[c].total_votes_for = 0
            /\ claims'[c].total_votes_against = 0
            /\ claims'[c].total_stake = 0
            /\ claims'[c].total_slashed = 0
            /\ claims'[c].vouch_count = 0 ]_vars

\* what the proposals write: an Active claim with every total 0 except
\* total_stake, which is the stake the proposer paid
C16_NewClaimZeroedButStake ==
    [][ \A c \in NewClaims :
            /\ claims'[c].status = "Active"
            /\ claims'[c].total_votes_for = 0
            /\ claims'[c].total_votes_against = 0
            /\ claims'[c].total_stake = escrow' - escrow
            /\ claims'[c].total_slashed = 0
            /\ claims'[c].vouch_count = 0 ]_vars

\* claims of two different kinds were proposed and have no vote yet
C16_Witness ==
    \E c, d \in DOMAIN claims :
        /\ claims[c].claim_type = "DuplicateFlag"
        /\ claims[d].claim_type = "LinkToPrimary"
        /\ claims[c].status = "Active" /\ claims[c].vouch_count = 0
        /\ claims[d].status = "Active" /\ claims[d].vouch_count = 0

\* C17: a claim is created with created_at = the governance time of the
\* step and expires_at = created_at + the claim_expiry_duration in force in
\* that step, and no later step changes either field, whatever
\* claim_expiry_duration is updated to.
C17_ExpiryFixedAtCreation ==
    [][ /\ \A c \in NewClaims :
                /\ claims'[c].created_at = clock + governance.time_warp_seconds
                /\ claims'[c].expires_at =
                        claims'[c].created_at + governance.params.claim_expiry_duration
        /\ \A c \in DOMAIN claims :
                /\ c \in DOMAIN claims'
                /\ claims'[c].created_at = claims[c].created_at
                /\ claims'[c].expires_at = claims[c].expires_at ]_vars

\* a claim proposed under the longer duration, and one whose expiry is not
\* what the duration now in force would give; the latter has expired
C17_Witness ==
    /\ \E c \in DOMAIN claims :
            claims[c].expires_at = claims[c].created_at + ExpiryDuration + 1
    /\ \E c \in DOMAIN claims :
            /\ claims[c].expires_at #
                    claims[c].created_at + governance.params.claim_expiry_duration
            /\ claims[c].created_at >= 3
            /\ claims[c].status = "Expired"

\* the four conditions of an accepted vote
VoteConditions(v, c, st) ==
    <<claims[c].status = "Active",
      clock + governance.time_warp_seconds < claims[c].expires_at,
      identities[v].tier \in {"PrimaryID", "Oracle"},
      st >= governance.params.min_stake_lamports>>

\* C18: a step creates a Vouch only if the claim is Active, the governance
\* time is before expires_at, the voter is PrimaryID or Oracle and the stake
\* is at least min_stake_lamports; a vote that misses one of these fails
\* with ClaimAlreadyResolved, ClaimExpired, InsufficientVotingWeight or
\* InsufficientStake (the account checks on status and tier come before the
\* checks of expiry and stake, expiry before stake); hence every Vouch has
\* vouched_at < expires_at of its claim.
C18_VoteOnlyOnOpenClaim ==
    /\ [](\A k \in DOMAIN vouches :
            /\ k[1] \in DOMAIN claims
            /\ vouches[k].vouched_at < claims[k[1]].expires_at)
    /\ [](\A v \in DOMAIN identities, c \in DOMAIN claims, st \in StakeChoices :
            LET ok == VoteConditions(v, c, st)
                errs == vouch_errs(v, c, st)
            IN  /\ ~ok[1] => "ClaimAlreadyResolved" \in errs
                /\ ~ok[3] => "InsufficientVotingWeight" \in errs
                /\ ~ok[1] \/ ~ok[3] => errs \cap {"ClaimExpired", "InsufficientStake"} = {}
                /\ ok[1] /\ ok[3] /\ <<c, v>> \notin DOMAIN vouches =>
                        /\ ~ok[2] => errs = {"ClaimExpired"}
                        /\ ok[2] /\ ~ok[4] => errs = {"InsufficientStake"})
    /\ [][ \A k \in NewVouches :
                /\ k[1] \in DOMAIN claims /\ k[2] \in DOMAIN identities
                /\ VoteConditions(k[2], k[1], vouches'[k].stake)
                        = <<TRUE, TRUE, TRUE, TRUE>>
                /\ vouches'[k].vouched_at = clock + governance.time_warp_seconds
                /\ claims'[k[1]].vouch_count = claims[k[1]].vouch_count + 1 ]_vars

\* an Oracle has voted on a claim that is still Active after its expiry, so
\* that a further vote on it fails with ClaimExpired
C18_Witness ==
    \E k \in DOMAIN vouches, v \in DOMAIN identities, st \in StakeChoices :
        /\ vouches[k].weight = governance.params.oracle_vote_weight
        /\ claims[k[1]].status = "Active"
        /\ vouch_errs(v, k[1], st) = {"ClaimExpired"}

\* C19: a step that resolves a NewPrimary claim as Approved (which needs
\* floor(for * 10000 / (for + against)) >= primary_threshold, as with
\* totals 200 / 1 and 9950 >= 6700) sets the tier of the subject to
\* PrimaryID and its verified_at to the governance time of the step, and
\* changes the tier of no other identity.
C19_ApprovedPrimaryVerified ==
    [][ \A c \in DOMAIN claims :
            ( /\ claims[c].claim_type = "NewPrimary"
              /\ Resolves(c)
              /\ claims'[c].status = "Approved" ) =>
                /\ identities'[claims[c].subject].tier = "PrimaryID"
                /\ identities'[claims[c].subject].verified_at
                        = clock + governance.time_warp_seconds
                /\ \A a \in DOMAIN identities \ {claims[c].subject} :
                        identities'[a].tier = identities[a].tier ]_vars

\* the example of the claim: two Oracle votes for and one PrimaryID vote
\* against, each of stake 1, totals 200 / 1, 9950 basis points; the claim is
\* Approved and its subject is PrimaryID, verified at the time of the claim
C19_Witness ==
    \E c \in DOMAIN claims :
        /\ claims[c].claim_type = "NewPrimary"
        /\ claims[c].status = "Approved"
        /\ claims[c].total_votes_for = 200
        /\ claims[c].total_votes_against = 1
        /\ claims[c].vouch_count = 3
        /\ consensus_for_bps(claims[c], TRUE) = 9950
        /\ governance.params.primary_threshold = 6700
        /\ identities[claims[c].subject].tier = "PrimaryID"
        /\ identities[claims[c].subject].verified_at = claims[c].created_at

\* C20: a DuplicateFlag claim is created only for two different addresses
\* whose identities are both PrimaryID or Oracle; a challenge of an address
\* against itself fails with CannotChallengeSameAddress and a challenge that
\* names an identity of another tier with NotAPrimaryId; the step that
\* creates the claim sets under_challenge and challenge_claim_id = the id of
\* the new claim on both identities.
C20_ChallengeFlagsBoth ==
    /\ [](\A ch, a, b \in DOMAIN identities, j \in TextLens, st \in ProposalStakes, oc \in BOOLEAN :
            next_claim_id \notin DOMAIN claims =>
                /\ a = b => challenge_duplicate_errs(ch, a, b, j, st, oc)
                                = {"CannotChallengeSameAddress"}
                /\ ( /\ a # b
                      /\ \/ identities[a].tier \notin {"PrimaryID", "Oracle"}
                         \/ identities[b].tier \notin {"PrimaryID", "Oracle"} ) =>
                        challenge_duplicate_errs(ch, a, b, j, st, oc) = {"NotAPrimaryId"})
    /\ [][ \A c \in NewClaims :
                claims'[c].claim_type = "DuplicateFlag" =>
                    LET a == claims'[c].subject
                        b == claims'[c].related_address
                    IN  /\ a # b
                        /\ {a, b} \subseteq DOMAIN identities
                        /\ identities[a].tier \in {"PrimaryID", "Oracle"}
                        /\ identities[b].tier \in {"PrimaryID", "Oracle"}
                        /\ identities'[a].under_challenge
                        /\ identities'[a].challenge_claim_id = c
                        /\ identities'[b].under_challenge
                        /\ identities'[b].challenge_claim_id = c ]_vars

\* an Active challenge of an Oracle and a PrimaryID, both flagged with its
\* id, while the third identity is not primary-capable
C20_Witness ==
    \E c \in DOMAIN claims :
        /\ claims[c].claim_type = "DuplicateFlag"
        /\ claims[c].status = "Active"
        /\ identities[claims[c].subject].tier = "Oracle"
        /\ identities[claims[c].related_address].tier = "PrimaryID"
        /\ \A a \in {claims[c].subject, claims[c].related_address} :
                /\ identities[a].under_challenge
                /\ identities[a].challenge_claim_id = c
        /\ \E a \in DOMAIN identities : ~is_primary(identities[a])

\* the addresses named by a claim of type DuplicateFlag
NamedBy(c) == {claims[c].subject, claims[c].related_address}

\* C21: while a DuplicateFlag claim has status Active, both identities it
\* names have under_challenge = true, whatever else is resolved meanwhile,
\* and every NewPrimary or LinkToPrimary proposal of either address fails.
C21_FlaggedWhileActive ==
    \A c \in DOMAIN claims :
        claims[c].claim_type = "DuplicateFlag" /\ claims[c].status = "Active" =>
            \A a \in NamedBy(c) :
                /\ identities[a].under_challenge
                /\ \A j \in TextLens, st \in ProposalStakes, oc \in BOOLEAN :
                        request_primary_verification_errs(a, j, st, oc) # {}
                /\ \A b \in Addrs, p \in Platforms, j \in TextLens, st \in ProposalStakes, oc \in BOOLEAN :
                        request_link_to_primary_errs(a, b, p, j, st) # {}

\* a NewPrimary proposal of an address named by an Active challenge fails
\* with AddressUnderChallenge alone
C21_Witness ==
    \E c \in DOMAIN claims :
        /\ claims[c].claim_type = "DuplicateFlag"
        /\ claims[c].status = "Active"
        /\ \E a \in NamedBy(c), j \in TextLens, st \in ProposalStakes, oc \in BOOLEAN :
                request_primary_verification_errs(a, j, st, oc) = {"AddressUnderChallenge"}

\* C22: only NewPrimary and LinkToPrimary proposals check under_challenge.
\* A DuplicateFlag proposal that names two different primary-capable
\* addresses with a sufficient stake the challenger can pay is accepted
\* whether or not the addresses are under challenge, and the step that
\* creates it puts its id into challenge_claim_id of both, replacing the id
\* of an earlier challenge; a proposal of the two other kinds by a flagged
\* subject fails.
C22_ChallengeIgnoresFlag ==
    /\ [](\A ch \in Addrs, a, b \in DOMAIN identities, j \in TextLens,
             st \in ProposalStakes, oc \in BOOLEAN :
            ( /\ a # b
              /\ identities[a].tier \in {"PrimaryID", "Oracle"}
              /\ identities[b].tier \in {"PrimaryID", "Oracle"}
              /\ st >= governance.params.min_stake_lamports
                         * governance.params.duplicate_stake_multiplier
              /\ st <= balances[ch]
              /\ next_claim_id \notin DOMAIN claims ) =>
                challenge_duplicate_errs(ch, a, b, j, st, oc) = {})
    /\ [](\A a \in DOMAIN identities, j \in TextLens, st \in ProposalStakes, oc \in BOOLEAN :
            identities[a].under_challenge =>
                /\ request_primary_verification_errs(a, j, st, oc) # {}
                /\ \A b \in Addrs, p \in Platforms :
                        request_link_to_primary_errs(a, b, p, j, st) # {})
    /\ [][ \A c \in NewClaims :
                claims'[c].claim_type = "DuplicateFlag" =>
                    /\ identities'[claims'[c].subject].challenge_claim_id = c
                    /\ identities'[claims'[c].related_address].challenge_claim_id = c ]_vars

\* a second challenge was accepted while the first, naming the same
\* address, is Active; the address carries the id of the second
C22_Witness ==
    \E c, d \in DOMAIN claims :
        /\ c < d
        /\ claims[c].claim_type = "DuplicateFlag" /\ claims[c].status = "Active"
        /\ claims[d].claim_type = "DuplicateFlag" /\ claims[d].status = "Active"
        /\ \E a \in NamedBy(c) \cap NamedBy(d) :
                /\ identities[a].under_challenge
                /\ identities[a].challenge_claim_id = d

\* the subject is inside the cooldown after its last failed claim
InCooldown(a) ==
    /\ identities[a].last_failed_claim_at > 0
    /\ clock + governance.time_warp_seconds
            < identities[a].last_failed_claim_at
              + governance.params.failed_claim_cooldown

\* C23: a NewPrimary or LinkToPrimary proposal of a subject whose
\* last_failed_claim_at is t > 0 fails while now < t + failed_claim_cooldown
\* (with CooldownNotElapsed when the length and stake checks before it pass)
\* and creates no claim; from now >= t + failed_claim_cooldown on, and for a
\* subject with last_failed_claim_at = 0, the proposal never fails with
\* CooldownNotElapsed.
C23_CooldownBlocksProposals ==
    /\ [](\A a \in DOMAIN identities, j \in TextLens, st \in ProposalStakes, oc \in BOOLEAN :
            LET errs == request_primary_verification_errs(a, j, st, oc)
                paid == st >= governance.params.min_stake_lamports
                              * governance.params.primary_stake_multiplier
            IN  IF InCooldown(a)
                THEN /\ errs # {}
                     /\ paid /\ next_claim_id \notin DOMAIN claims =>
                            errs = {"CooldownNotElapsed"}
                ELSE "CooldownNotElapsed" \notin errs)
    /\ [](\A a \in DOMAIN identities, b \in Addrs, p \in LinkPlatforms,
             j \in TextLens, st \in ProposalStakes, oc \in BOOLEAN :
            LET errs == request_link_to_primary_errs(a, b, p, j, st)
                paid == st >= governance.params.min_stake_lamports
            IN  IF InCooldown(a)
                THEN /\ errs # {}
                     /\ paid /\ next_claim_id \notin DOMAIN claims =>
                            errs = {"CooldownNotElapsed"}
                ELSE "CooldownNotElapsed" \notin errs)
    /\ [][ \A c \in NewClaims :
                claims'[c].claim_type \in {"NewPrimary", "LinkToPrimary"} =>
                    ~InCooldown(claims'[c].subject) ]_vars

\* a subject whose claim failed in this run proposed again once the
\* cooldown had elapsed
C23_Witness ==
    \E c \in DOMAIN claims :
        /\ claims[c].claim_type \in {"NewPrimary", "LinkToPrimary"}
        /\ claims[c].status = "Active"
        /\ identities[claims[c].subject].last_failed_claim_at >= 3
        /\ claims[c].created_at
                >= identities[claims[c].subject].last_failed_claim_at
                   + governance.params.failed_claim_cooldown
\* C24: a proposal is accepted only with stake_amount >= min_stake_lamports *
\* requiredMultiplier(claim type), the product taken as a mathematical
\* integer: every step that creates a claim moves at least that product into
\* the escrow, and a NewPrimary proposal with a smaller stake fails with
\* InsufficientStake whenever no earlier check fails.
C24_StakeAtLeastProduct ==
    /\ [][\A c \in NewClaims :
            escrow' - escrow >= governance.params.min_stake_lamports
                * required_stake_multiplier(claims'[c].claim_type, governance.params)]_vars
    /\ [](\A a \in DOMAIN identities, j \in TextLens, st \in ProposalStakes, oc \in BOOLEAN :
            ( /\ st < governance.params.min_stake_lamports
                        * governance.params.primary_stake_multiplier
              /\ next_claim_id \notin DOMAIN claims ) =>
                request_primary_verification_errs(a, j, st, oc) = {"InsufficientStake"})

\* the product min_stake_lamports * primary_stake_multiplier is beyond the
\* u64 range and a NewPrimary claim holds a stake below it
C24_Witness ==
    /\ governance.params.min_stake_lamports * governance.params.primary_stake_multiplier
            >= StakeModulus
    /\ \E c \in DOMAIN claims :
            /\ claims[c].claim_type = "NewPrimary"
            /\ claims[c].created_at = clock
            /\ claims[c].total_stake < governance.params.min_stake_lamports
                                           * governance.params.primary_stake_multiplier

\* C25: once governance is initialized, with whatever parameters, the three
\* stored thresholds lie within 5100..10000, and so no Active claim meets the
\* Approved condition (consensus >= threshold) and the Rejected condition
\* (consensus <= 10000 - threshold) at once.
C25_ThresholdsInRange ==
    governance.initialized =>
        /\ threshold_valid(governance.params.link_threshold)
        /\ threshold_valid(governance.params.primary_threshold)
        /\ threshold_valid(governance.params.duplicate_threshold)
        /\ \A c \in DOMAIN claims :
                claims[c].status = "Active" =>
                    LET threshold == required_threshold(claims[c].claim_type,
                                                        governance.params)
                    IN  ~ ( /\ consensus_for_bps(claims[c], TRUE) >= threshold
                            /\ consensus_for_bps(claims[c], TRUE) <= 10000 - threshold )

\* governance was initialized with primary_threshold = 0, and an Active
\* NewPrimary claim meets the Approved and the Rejected condition
C25_Witness ==
    /\ governance.initialized
    /\ governance.params.primary_threshold = 0
    /\ \E c \in DOMAIN claims :
            /\ claims[c].status = "Active"
            /\ claims[c].claim_type = "NewPrimary"
            /\ consensus_for_bps(claims[c], TRUE) >= governance.params.primary_threshold
            /\ consensus_for_bps(claims[c], TRUE) <= 10000 - governance.params.primary_threshold

\* the four slash rates of a parameter set
slash_rates(params) ==
    { params.link_slash_bps, params.primary_slash_bps,
      params.duplicate_slash_bps, params.sybil_slash_bps }

\* C26: update_governance_params called by the authority with a parameter set
\* in which one of the four slash rates is above 10000 fails with
\* InvalidSlashRate, and no stored slash rate is above 10000.
C26_SlashRatesValidated ==
    /\ \A p \in SlashParamChoices :
            ( /\ governance.initialized
              /\ \E r \in slash_rates(p) : r > 10000 ) =>
                update_governance_params_errs(governance.authority, p)
                    = {"InvalidSlashRate"}
    /\ governance.initialized =>
            \A r \in slash_rates(governance.params) : r <= 10000

\* an update stored a primary_slash_bps above 10000
C26_Witness ==
    /\ governance.initialized
    /\ governance.params = OverSlashParams
    /\ governance.params.primary_slash_bps > 10000

\* an Approved LinkToPrimary claim of `secondary` that names `primary`
ApprovedLink(secondary, primary) ==
    \E c \in DOMAIN claims :
        /\ claims[c].claim_type = "LinkToPrimary"
        /\ claims[c].status = "Approved"
        /\ claims[c].subject = secondary
        /\ claims[c].related_address = primary

\* C27: link_identity succeeds only where an Approved LinkToPrimary claim
\* with subject = the secondary and related address = the primary exists:
\* every step that creates a link record has such a claim, and every
\* identity of tier LinkedID has one for its primary_address.
C27_LinkNeedsApprovedClaim ==
    /\ [][\A k \in DOMAIN links' \ DOMAIN links :
            ApprovedLink(links'[k].linked_address, links'[k].primary_address)]_vars
    /\ [](\A a \in DOMAIN identities :
            identities[a].tier = "LinkedID" =>
                ApprovedLink(a, identities[a].primary_address))

\* an identity was linked although no LinkToPrimary claim exists at all
C27_Witness ==
    /\ \E a \in DOMAIN identities, k \in DOMAIN links :
            /\ identities[a].tier = "LinkedID"
            /\ links[k].linked_address = a
            /\ links[k].primary_address = identities[a].primary_address
    /\ \A c \in DOMAIN claims : claims[c].claim_type # "LinkToPrimary"

\* the link records keyed by the primary a
LinkRecordsOf(a) == {k \in DOMAIN links : k[1] = a}

\* C28: there is one link record per (primary, platform) at most: a
\* link_identity call for a slot that is taken fails, no step changes or
\* removes a record, and the linked_count of every identity equals the
\* number of link records keyed by it.
C28_OneRecordPerSlot ==
    /\ [](\A a, b \in DOMAIN identities, p \in LinkPlatforms :
            <<a, p>> \in DOMAIN links => link_identity_errs(a, b, p) # {})
    /\ [][\A k \in DOMAIN links : k \in DOMAIN links' /\ links'[k] = links[k]]_vars
    /\ [](\A a \in DOMAIN identities :
            identities[a].linked_count = Cardinality(LinkRecordsOf(a)))

\* a link record keyed by an identity that was passed as primary and as
\* linked identity at once
C28_Witness ==
    \E k \in DOMAIN links :
        /\ links[k].primary_address = links[k].linked_address
        /\ identities[k[1]].tier = "LinkedID"
        /\ identities[k[1]].linked_count = 0

\* the vote total of claim c on the side `supports`
SideTotal(c, supports) ==
    IF supports THEN claims[c].total_votes_for ELSE claims[c].total_votes_against

ExactBps(claim) ==
    IF claim.total_votes_for + claim.total_votes_against = 0 THEN 0
    ELSE (claim.total_votes_for * 10000)
            \div (claim.total_votes_for + claim.total_votes_against)

\* C30: for the vote totals of every claim, in either build, consensus_bps is
\* floor(total_votes_for * 10000 / (total_votes_for + total_votes_against))
\* over the integers, 0 when both totals are 0, and within 0..10000.
C30_BpsIsExactRatio ==
    \A c \in DOMAIN claims, oc \in BOOLEAN :
        /\ consensus_for_bps(claims[c], oc) = ExactBps(claims[c])
        /\ consensus_for_bps(claims[c], oc) \in 0..10000

\* an Active claim with votes on one side only, for which the build with
\* overflow checks panics and the build without them computes less than 10000
\* and finds the claim rejected
C30_Witness ==
    \E c \in DOMAIN claims :
        /\ claims[c].status = "Active"
        /\ claims[c].total_votes_for > 0
        /\ claims[c].total_votes_against = 0
        /\ consensus_for_bps(claims[c], TRUE) = -1
        /\ consensus_for_bps(claims[c], FALSE) < 10000
        /\ consensus_reached(claims[c], governance.params, FALSE) = "Some(false)"

\* C31: consensus_bps is monotone in the votes.  In either build, where the
\* computation returns a value before and after, a step that records a FOR
\* vote leaves the consensus_bps of the claim equal or higher, and a step
\* that records an AGAINST vote leaves it equal or lower.
C31_BpsMonotone ==
    [][\A k \in NewVouches, oc \in BOOLEAN :
        LET before == consensus_for_bps(claims[k[1]], oc)
            after  == consensus_for_bps(claims'[k[1]], oc)
        IN  (before # -1 /\ after # -1) =>
                IF vouches'[k].supports THEN after >= before ELSE after <= before]_vars

\* a claim with two FOR votes and no AGAINST vote whose consensus_bps was
\* 10000 with one of the two votes alone and is lower with both
C31_Witness ==
    \E c \in DOMAIN claims :
        /\ claims[c].total_votes_against = 0
        /\ Cardinality(SideOf(c, TRUE)) = 2
        /\ consensus_for_bps(claims[c], FALSE) \in 0..9999
        /\ \E k \in SideOf(c, TRUE) :
                consensus_for_bps([claims[c] EXCEPT
                    !.total_votes_for = weighted_vote(vouches[k])], FALSE) = 10000

C33_HoldReleasedAtResolution ==
    [][\A c \in DOMAIN claims :
        (claims[c].claim_type = "DuplicateFlag" /\ Resolves(c)) =>
            /\ ~identities'[claims[c].subject].under_challenge
            /\ identities'[claims[c].subject].challenge_claim_id = 0]_vars

\* an Expired DuplicateFlag claim whose subject is still held by it
C33_Witness ==
    \E c \in DOMAIN claims :
        /\ claims[c].claim_type = "DuplicateFlag"
        /\ claims[c].status = "Expired"
        /\ identities[claims[c].subject].under_challenge
        /\ identities[claims[c].subject].challenge_claim_id = c

\* C34: claim ids are collision-free.  Every claim record carries the id it
\* is stored under, so no two records share one; a proposal made in a second
\* whose id is taken fails on the claim account; and a step that creates a
\* claim creates it under the id of that second and leaves every existing
\* claim as it was.
C34_ClaimIdsCollisionFree ==
    /\ [](\A c, d \in DOMAIN claims :
            /\ claims[c].claim_id = c
            /\ c # d => claims[c].claim_id # claims[d].claim_id)
    /\ [](next_claim_id \in DOMAIN claims =>
            /\ \A a \in DOMAIN identities, j \in TextLens, st \in ProposalStakes,
                  oc \in BOOLEAN :
                    request_primary_verification_errs(a, j, st, oc)
                        = {"AccountAlreadyInUse"}
            /\ \A a \in DOMAIN identities, b \in Addrs, p \in Platforms,
                  j \in TextLens, st \in ProposalStakes :
                    request_link_to_primary_errs(a, b, p, j, st)
                        = {"AccountAlreadyInUse"}
            /\ \A ch \in Addrs, a, b \in DOMAIN identities, j \in TextLens,
                  st \in ProposalStakes, oc \in BOOLEAN :
                    challenge_duplicate_errs(ch, a, b, j, st, oc)
                        = {"AccountAlreadyInUse"})
    /\ [][\A c \in NewClaims :
            /\ c = next_claim_id
            /\ NewClaims = {c}
            /\ \A d \in DOMAIN claims : claims'[d] = claims[d]]_vars

\* a claim was created in this second, and a further proposal that passes
\* every check of its handler fails on the claim account
C34_Witness ==
    /\ next_claim_id \in DOMAIN claims
    /\ claims[next_claim_id].status = "Active"
    /\ \E a \in DOMAIN identities, j \in TextLens, st \in ProposalStakes :
            /\ request_primary_verification_errs(a, j, st, TRUE)
                    = {"AccountAlreadyInUse"}
            /\ st >= governance.params.min_stake_lamports
                        * governance.params.primary_stake_multiplier
            /\ st <= balances[a]
            /\ ~identities[a].under_challenge
            /\ identities[a].last_failed_claim_at = 0

\* C35: a claim record changes only by an accepted vote while it is Active
\* and by its one resolution.  A vote on a claim that is Approved, Rejected
\* or Expired fails; no step changes the record of such a claim or creates a
\* Vouch for it; and a step that changes the record of an Active claim either
\* records a vote on it or resolves it, changing the status alone.
C35_TerminalClaimFrozen ==
    /\ [](\A c \in DOMAIN claims, v \in Addrs, st \in StakeChoices :
            claims[c].status \in Terminal => vouch_errs(v, c, st) # {})
    /\ [][\A c \in DOMAIN claims :
            IF claims[c].status \in Terminal
            THEN /\ claims'[c] = claims[c]
                 /\ \A k \in NewVouches : k[1] # c
            ELSE claims'[c] # claims[c] =>
                    \/ \E k \in NewVouches : k[1] = c
                    \/ /\ Resolves(c)
                       /\ claims'[c] = [claims[c] EXCEPT !.status = claims'[c].status]]_vars

\* a resolved claim with a vote and a settled reward, and an identity that
\* has not voted on it and whose vote fails on the status of the claim alone
C35_Witness ==
    \E c \in DOMAIN claims :
        /\ claims[c].status \in Terminal
        /\ claims[c].vouch_count > 0
        /\ \E k \in VouchesOn(c) : vouches[k].rewards_claimed
        /\ \E v \in DOMAIN identities, st \in StakeChoices :
                /\ <<c, v>> \notin DOMAIN vouches
                /\ vouch_errs(v, c, st) = {"ClaimAlreadyResolved"}

\* C36: upgrade_to_oracle called by another signer than the governance
\* authority fails with UnauthorizedGovernance; called by the authority it
\* fails with MustBePrimaryToUpgrade on an identity of tier GreyGhost,
\* LinkedID or Oracle and succeeds on a PrimaryID identity.  An identity
\* becomes Oracle only from PrimaryID, with oracle_decay_start = now and
\* nothing else changed, and oracle_decay_start changes in no other step.
C36_UpgradeOnlyFromPrimary ==
    /\ [](\A a \in DOMAIN identities, s \in Signers :
            upgrade_to_oracle_errs(a, s) =
                IF s # governance.authority THEN {"UnauthorizedGovernance"}
                ELSE IF identities[a].tier # "PrimaryID" THEN {"MustBePrimaryToUpgrade"}
                ELSE {})
    /\ [][\A a \in DOMAIN identities :
            /\ (identities'[a].tier = "Oracle" /\ identities[a].tier # "Oracle") =>
                    /\ identities[a].tier = "PrimaryID"
                    /\ identities'[a] = [identities[a] EXCEPT
                            !.tier = "Oracle", !.oracle_decay_start = current_time]
            /\ identities'[a].oracle_decay_start # identities[a].oracle_decay_start =>
                    (identities'[a].tier = "Oracle" /\ identities[a].tier = "PrimaryID")]_vars

\* an Oracle, a LinkedID and a GreyGhost identity, each refused to the
\* authority, next to a PrimaryID identity that the authority may upgrade
C36_Witness ==
    /\ \E a \in DOMAIN identities :
            /\ identities[a].tier = "Oracle"
            /\ identities[a].oracle_decay_start > 0
            /\ upgrade_to_oracle_errs(a, governance.authority) = {"MustBePrimaryToUpgrade"}
    /\ \E a \in DOMAIN identities : identities[a].tier = "LinkedID"
    /\ \E a \in DOMAIN identities : identities[a].tier = "GreyGhost"

\* C37: last_failed_claim_at of an identity is written only by a resolution
\* of a claim of that subject that ends in Rejected or Expired, which sets
\* it to the time of the resolution; a resolution that ends in Approved and
\* every other step leave it as it was.
C37_FailureStampOnlyOnFailure ==
    [][ /\ \A c \in DOMAIN claims :
            Resolves(c) =>
                IF claims'[c].status \in {"Rejected", "Expired"}
                THEN identities'[claims[c].subject].last_failed_claim_at = current_time
                ELSE identities'[claims[c].subject].last_failed_claim_at
                        = identities[claims[c].subject].last_failed_claim_at
        /\ \A a \in DOMAIN identities :
            identities'[a].last_failed_claim_at # identities[a].last_failed_claim_at =>
                \E c \in DOMAIN claims :
                    /\ claims[c].subject = a
                    /\ Resolves(c)
                    /\ claims'[c].status \in {"Rejected", "Expired"} ]_vars

\* a subject with an earlier failure whose later claim was approved, the
\* time of the failure still in place
C37_Witness ==
    \E c \in DOMAIN claims :
        /\ claims[c].status = "Approved"
        /\ claims[c].vouch_count > 0
        /\ identities[claims[c].subject].last_failed_claim_at \in 1..(claims[c].created_at - 1)

\* sum of total_stake over the claims with the ids cs
RECURSIVE SumTotalStake(_)
SumTotalStake(cs) ==
    IF cs = {} THEN 0
    ELSE LET c == CHOOSE c \in cs : TRUE
         IN  claims[c].total_stake + SumTotalStake(cs \ {c})

\* sum of reward_amount, and of stake, over the Vouch records with the keys ks
RECURSIVE SumRewards(_)
SumRewards(ks) ==
    IF ks = {} THEN 0
    ELSE LET k == CHOOSE k \in ks : TRUE
         IN  vouches[k].reward_amount + SumRewards(ks \ {k})

RECURSIVE SumStakes(_)
SumStakes(ks) ==
    IF ks = {} THEN 0
    ELSE LET k == CHOOSE k \in ks : TRUE
         IN  vouches[k].stake + SumStakes(ks \ {k})

C39_NoVotesRejectable ==
    /\ [](\A c \in DOMAIN claims, oc \in BOOLEAN :
            ( /\ claims[c].status = "Active"
              /\ claims[c].total_votes_for = 0
              /\ claims[c].total_votes_against = 0
              /\ current_time < claims[c].expires_at
              /\ threshold_valid(required_threshold(claims[c].claim_type,
                                                    governance.params)) ) =>
                /\ resolve_consensus_errs(c, oc) = {}
                /\ resolve_outcome(c, oc) = "Rejected")
    /\ [][\A c \in DOMAIN claims :
            ( /\ Resolves(c)
              /\ claims[c].total_votes_for = 0
              /\ claims[c].total_votes_against = 0
              /\ current_time < claims[c].expires_at
              /\ threshold_valid(required_threshold(claims[c].claim_type,
                                                    governance.params)) ) =>
                /\ claims'[c].status = "Rejected"
                /\ identities'[claims[c].subject].last_failed_claim_at = current_time]_vars

\* a claim without votes was rejected in the second it was created
C39_Witness ==
    \E c \in DOMAIN claims :
        /\ claims[c].status = "Rejected"
        /\ claims[c].vouch_count = 0
        /\ claims[c].created_at = current_time
        /\ current_time < claims[c].expires_at
        /\ identities[claims[c].subject].last_failed_claim_at = current_time
        /\ threshold_valid(required_threshold(claims[c].claim_type, governance.params))

\* C40: no claim stays unresolvable.  For an Active claim at now >=
\* expires_at resolve_consensus succeeds in either build, whatever the vote
\* totals, with the outcome Expired; the status of a claim changes only in a
\* resolve_consensus step of that claim; and where time advances and
\* resolve_consensus is eventually called, every Active claim eventually has
\* a terminal status.
C40_EveryClaimResolves ==
    /\ [](\A c \in DOMAIN claims, oc \in BOOLEAN :
            (claims[c].status = "Active" /\ current_time >= claims[c].expires_at) =>
                /\ resolve_consensus_errs(c, oc) = {}
                /\ resolve_outcome(c, oc) = "Expired")
    /\ [][\A c \in DOMAIN claims :
            claims'[c].status # claims[c].status =>
                \E oc \in BOOLEAN : resolve_consensus(c, oc)]_vars
    /\ \A c \in ClaimIds :
            (c \in DOMAIN claims /\ claims[c].status = "Active")
                ~> (c \in DOMAIN claims /\ claims[c].status \in Terminal)

\* a claim whose votes leave it undecided became Expired
C40_Witness ==
    \E c \in DOMAIN claims :
        /\ claims[c].status = "Expired"
        /\ claims[c].total_votes_for > 0
        /\ claims[c].total_votes_against > 0
        /\ consensus_reached([claims[c] EXCEPT !.status = "Active"],
                             governance.params, TRUE) = "None"

=============================================================================
